---- MODULE Spec2Model ----
(***************************************************************************)
(* A model of the zezen debt-tracking server.  Two variants of the server  *)
(* are in the repository: src/server.js and src/unnamed/part_001.  The     *)
(* variable `variant` says which one is running; it never changes.         *)
(*                                                                         *)
(* Handlers.  Every route handler is an operator from the database and the *)
(* session of the request to the database and the session it leaves and    *)
(* the status it answers with; an action applies one handler to the        *)
(* current state.  A property of a handler is stated for every request     *)
(* that can be sent in every reachable state.                              *)
(*                                                                         *)
(* Specifications.  SpecAuth explores logging in, passwords, profiles,     *)
(* user administration and pages from the state initDB leaves.  SpecLedger *)
(* explores creditors, debtors, payments and statistics from a state       *)
(* SpecAuth reaches, in which two users are logged in.  Spec is the whole. *)
(*                                                                         *)
(* Numbers.  A JavaScript number is modelled as an exact count of          *)
(* thousandths (5000 stands for 5.000); a DECIMAL(15,2) column holds an    *)
(* exact count of hundredths.  Binary floating point error is not          *)
(* modelled.                                                               *)
(*                                                                         *)
(* Missing values.  A property missing from a JSON body is a field missing *)
(* from the record.  A NULL related_id is 0, a NULL last_login is 0.       *)
(***************************************************************************)
EXTENDS Integers, Sequences, FiniteSets, TLC

VARIABLES
    variant,    \* "server.js" or "part_001": the server file that is running
    users,      \* table users
    parents,    \* tables creditors and debtors, by kind
    items,      \* tables creditor_items and debtor_items, by kind
    payments,   \* table payments
    seq,        \* the SERIAL sequence of every table: the next id it hands out
    session,    \* the session store: what each browser's session holds
    exchange,   \* the last request handled: method, route, :id, browser, status
    creator,    \* history: who created each creditor, debtor and payment row
    deleted,    \* history: the creditors and debtors their owner has deleted
    running     \* the requests whose handler is between two store statements

vars == <<variant, users, parents, items, payments, seq, session, exchange,
          creator, deleted, running>>

----------------------------------------------------------------------------
(* Bounds of the model *)

\* rows the model lets the requests insert, over the whole run: into users
\* (the default admin included); into creditors, debtors and payments
\* together; into creditor_items and debtor_items together
MaxUsers == 2
MaxRows == 2
MaxItems == 2

\* successful logins the model lets each user make
MaxLogins == 1

----------------------------------------------------------------------------
(* Program constants *)

\* newPassword.length < 5
MinPasswordLength == 5

\* ORDER BY payment_date DESC LIMIT 5
RecentLimit == 5

----------------------------------------------------------------------------
(* Inputs *)

Variants == {"server.js", "part_001"}
Clients == {"c1", "c2"}
Kinds == {"creditors", "debtors"}

ItemTable(k) == IF k = "creditors" THEN "creditor_items" ELSE "debtor_items"
Tables == {"users", "payments"} \cup Kinds \cup {ItemTable(k) : k \in Kinds}

\* request bodies of POST/PUT /api/creditors and /api/debtors (without items)
Bodies ==
    { [full_name |-> "Amina", gender |-> "female", language |-> "french"],
      [full_name |-> "Bako"] }

\* the item lists a request may carry; amounts in thousandths
ItemLists ==
    { << >>,
      << [reason |-> "loan", amount |-> 5000, status |-> "pending"] >>,
      << [reason |-> "rent", amount |-> 2505, status |-> "paid"],
         [notes |-> "nothing else given"] >>,
      << [reason |-> "refund", amount |-> -1000, status |-> "partial"],
         [reason |-> "loan", amount |-> 5000, status |-> "pending"] >> }

PaymentBodies ==
    { [type |-> "paid", amount |-> 1000],
      [type |-> "received", amount |-> 1000, related_id |-> 1] }

Passwords == {"12345", "s3cret"}

\* the requests that may be in their handler at the same time, in the order
\* they arrive
Slots == {"r1", "r2"}

\* the item lists of the requests followed statement by statement
StepLists ==
    { << [reason |-> "rent", amount |-> 2505, status |-> "paid"],
         [notes |-> "nothing else given"] >>,
      << [reason |-> "refund", amount |-> -1000, status |-> "partial"] >> }

\* a slot no request has taken
Idle ==
    [op |-> "none", client |-> "c1", uid |-> 0, k |-> "creditors", id |-> 0,
     body |-> [full_name |-> "Bako"], L |-> << >>,
     pc |-> "idle", i |-> 0, status |-> 0, at |-> "idle"]

----------------------------------------------------------------------------
(* JavaScript and SQL helpers *)

\* body.f || dflt, for a string property
StrOr(body, f, dflt) ==
    IF f \in DOMAIN body /\ body[f] # "" THEN body[f] ELSE dflt

\* body.f || dflt, for a number property
NumOr(body, f, dflt) ==
    IF f \in DOMAIN body /\ body[f] # 0 THEN body[f] ELSE dflt

Abs(n) == IF n < 0 THEN -n ELSE n

\* A number sent to a DECIMAL(15,2) column: PostgreSQL rounds it to two
\* decimals, half away from zero.  Thousandths in, hundredths out.
Numeric152(n) ==
    LET q == (Abs(n) + 5) \div 10 IN IF n < 0 THEN -q ELSE q

\* parseFloat of a DECIMAL(15,2) value read back: hundredths in, thousandths out
parseFloat(c) == c * 10

\* bcrypt.hash and bcrypt.compare (the salt is not modelled)
bcryptHash(p) == <<"bcrypt", p>>

\* a faulty bcrypt.compare: every password verifies
bcryptCompareAny(p, h) == TRUE

bcryptCompare(p, h) == h = bcryptHash(p)

\* the rows of a set of rows as a sequence, ORDER BY id
RECURSIVE OrderById(_)
OrderById(S) ==
    IF S = {} THEN << >>
    ELSE LET r == CHOOSE x \in S : \A y \in S : x.id <= y.id
         IN <<r>> \o OrderById(S \ {r})

\* every sequence holding each row of S once
RECURSIVE Orderings(_)
Orderings(S) ==
    IF S = {} THEN { << >> }
    ELSE UNION { { <<r>> \o t : t \in Orderings(S \ {r}) } : r \in S }

----------------------------------------------------------------------------
(* The database as one value, so a handler can run its statements in order *)

DB == [users |-> users, parents |-> parents, items |-> items,
       payments |-> payments, seq |-> seq]

Commit(d) ==
    /\ users' = d.users
    /\ parents' = d.parents
    /\ items' = d.items
    /\ payments' = d.payments
    /\ seq' = d.seq

\* ids handed out so far for creditors, debtors and payments, and for items
RowsInserted == (seq["creditors"] - 1) + (seq["debtors"] - 1) + (seq["payments"] - 1)
ItemsInserted == (seq["creditor_items"] - 1) + (seq["debtor_items"] - 1)

\* nextval of a SERIAL sequence: consumed even when the INSERT then fails
NextVal(d, t) == [d EXCEPT !.seq[t] = @ + 1]

\* INSERT INTO creditors/debtors (user_id, full_name, contact, gender, language)
\* user_id REFERENCES users(id): the insert fails when the user row is gone
InsertParent(d, k, uid, body) ==
    LET id == d.seq[k]
        row == [id |-> id, user_id |-> uid,
                full_name |-> body.full_name,
                gender |-> StrOr(body, "gender", "male"),
                language |-> StrOr(body, "language", "english")]
    IN IF \E u \in d.users : u.id = uid
       THEN [db |-> [NextVal(d, k) EXCEPT !.parents[k] = @ \cup {row}],
             ok |-> TRUE, id |-> id]
       ELSE [db |-> NextVal(d, k), ok |-> FALSE, id |-> 0]

\* a faulty InsertItem: the table without its REFERENCES constraint
InsertItemUnchecked(d, k, pid, item) ==
    LET t == ItemTable(k)
        row == [id |-> d.seq[t], parent_id |-> pid,
                reason |-> StrOr(item, "reason", ""),
                amount |-> Numeric152(NumOr(item, "amount", 0)),
                status |-> StrOr(item, "status", "pending")]
    IN [db |-> [NextVal(d, t) EXCEPT !.items[k] = @ \cup {row}], ok |-> TRUE]

\* INSERT INTO creditor_items/debtor_items ... one row
\* creditor_id REFERENCES creditors(id): fails when the parent row is missing
InsertItem(d, k, pid, item) ==
    LET t == ItemTable(k)
        row == [id |-> d.seq[t], parent_id |-> pid,
                reason |-> StrOr(item, "reason", ""),
                amount |-> Numeric152(NumOr(item, "amount", 0)),
                status |-> StrOr(item, "status", "pending")]
    IN IF \E p \in d.parents[k] : p.id = pid
       THEN [db |-> [NextVal(d, t) EXCEPT !.items[k] = @ \cup {row}], ok |-> TRUE]
       ELSE [db |-> NextVal(d, t), ok |-> FALSE]

\* for (const item of items) await pool.query('INSERT INTO ..._items ...')
\* the loop ends at the first statement that throws
RECURSIVE InsertItems(_, _, _, _, _)
InsertItems(d, k, pid, L, i) ==
    IF i > Len(L) THEN [db |-> d, ok |-> TRUE]
    ELSE LET r == InsertItem(d, k, pid, L[i])
         IN IF r.ok THEN InsertItems(r.db, k, pid, L, i + 1) ELSE r

\* a faulty DeleteItems: the statement forgotten
DeleteItemsNone(d, k, pid) == d

\* DELETE FROM creditor_items WHERE creditor_id = $1
DeleteItems(d, k, pid) ==
    [d EXCEPT !.items[k] = {i \in @ : i.parent_id # pid}]

\* the rows ON DELETE CASCADE removes with the parents no longer stored
CascadeItems(d, k) ==
    [d EXCEPT !.items[k] =
        {i \in @ : \E p \in d.parents[k] : p.id = i.parent_id}]

\* a faulty DeleteParent: the statement forgotten
DeleteParentNone(d, k, pid) == d

\* DELETE FROM creditors WHERE id = $1  (items go with it: ON DELETE CASCADE)
DeleteParent(d, k, pid) ==
    CascadeItems([d EXCEPT !.parents[k] = {p \in @ : p.id # pid}], k)

\* DELETE FROM creditors WHERE id = $1 AND user_id = $2
DeleteParentOwned(d, k, pid, uid) ==
    CascadeItems(
        [d EXCEPT !.parents[k] = {p \in @ : ~(p.id = pid /\ p.user_id = uid)}], k)

\* UPDATE creditors SET full_name, contact, gender, language WHERE id = $5
UpdateParent(d, k, pid, body) ==
    [d EXCEPT !.parents[k] =
        { IF p.id = pid
          THEN [p EXCEPT !.full_name = body.full_name,
                         !.gender = StrOr(body, "gender", "male"),
                         !.language = StrOr(body, "language", "english")]
          ELSE p : p \in @ }]

\* UPDATE creditors SET ... WHERE id = $5 AND user_id = $6
UpdateParentOwned(d, k, pid, uid, body) ==
    [d EXCEPT !.parents[k] =
        { IF p.id = pid /\ p.user_id = uid
          THEN [p EXCEPT !.full_name = body.full_name,
                         !.gender = StrOr(body, "gender", "male"),
                         !.language = StrOr(body, "language", "english")]
          ELSE p : p \in @ }]

\* SELECT id FROM creditors WHERE id = $1 AND user_id = $2
SelectOwned(d, k, pid, uid) ==
    {p \in d.parents[k] : p.id = pid /\ p.user_id = uid}


\* DELETE FROM users WHERE id = $1: creditors, debtors and payments of the user
\* go with it, and their items with them (ON DELETE CASCADE)
DeleteUserRow(d, uid) ==
    LET d1 == [d EXCEPT !.users = {u \in @ : u.id # uid},
                        !.parents = [k \in Kinds |-> {p \in @[k] : p.user_id # uid}],
                        !.payments = {p \in @ : p.user_id # uid}]
    IN CascadeItems(CascadeItems(d1, "creditors"), "debtors")

\* a faulty InsertPayment: a payment of type paid is stored as a negative amount
InsertPaymentSigned(d, uid, body, related) ==
    LET id == d.seq["payments"]
        row == [id |-> id, user_id |-> uid, type |-> body.type,
                related_id |-> related,
                amount |-> IF body.type = "paid" THEN -Numeric152(body.amount)
                           ELSE Numeric152(body.amount)]
    IN IF \E u \in d.users : u.id = uid
       THEN [db |-> [NextVal(d, "payments") EXCEPT !.payments = @ \cup {row}],
             ok |-> TRUE, id |-> id]
       ELSE [db |-> NextVal(d, "payments"), ok |-> FALSE, id |-> 0]

\* INSERT INTO payments (user_id, type, related_id, amount, ...)
InsertPayment(d, uid, body, related) ==
    LET id == d.seq["payments"]
        row == [id |-> id, user_id |-> uid, type |-> body.type,
                related_id |-> related, amount |-> Numeric152(body.amount)]
    IN IF \E u \in d.users : u.id = uid
       THEN [db |-> [NextVal(d, "payments") EXCEPT !.payments = @ \cup {row}],
             ok |-> TRUE, id |-> id]
       ELSE [db |-> NextVal(d, "payments"), ok |-> FALSE, id |-> 0]

----------------------------------------------------------------------------
(* Sessions *)

\* a session that holds nothing: never logged in, or destroyed
NoSession == [x \in {} |-> 0]

\* function requireAuth(req, res, next): req.session.userId is set
requireAuth(s) == "userId" \in DOMAIN s

\* function requireAdmin(req, res, next)
requireAdmin(s) == "userId" \in DOMAIN s /\ s.isAdmin

----------------------------------------------------------------------------
(* Ledger: what the GET handlers compute *)

\* items.reduce((sum, item) => sum + item.amount, 0)
RECURSIVE SumAmounts(_, _)
SumAmounts(its, i) ==
    IF i > Len(its) THEN 0 ELSE its[i].amount + SumAmounts(its, i + 1)

\* a faulty FilterPending: paid items are kept too
FilterNotPartial(its) == SelectSeq(its, LAMBDA i : i.status # "partial")

\* items.filter(i => i.status === 'pending')
FilterPending(its) == SelectSeq(its, LAMBDA i : i.status = "pending")

\* SELECT * FROM creditor_items WHERE creditor_id = $1 ORDER BY id, then
\* items.map(item => ({...item, amount: parseFloat(item.amount) || 0}))
ItemsOf(d, k, pid) ==
    LET rows == OrderById({i \in d.items[k] : i.parent_id = pid})
    IN [n \in 1..Len(rows) |-> [rows[n] EXCEPT !.amount = parseFloat(@)]]

\* a faulty totalAmount: only the pending items are summed
totalAmountOfPending(its) == SumAmounts(SelectSeq(its, LAMBDA i : i.status = "pending"), 1)

totalAmount(its) == SumAmounts(its, 1)

pendingAmount(its) == SumAmounts(FilterPending(its), 1)

\* one element of the array GET /api/creditors answers with
WithTotals(d, k, p) ==
    LET its == ItemsOf(d, k, p.id)
    IN [id |-> p.id, user_id |-> p.user_id, full_name |-> p.full_name,
        gender |-> p.gender, language |-> p.language, items |-> its,
        total_amount |-> totalAmount(its), pending_amount |-> pendingAmount(its)]

\* the collation order of the names the model uses
NameRank(n) == CASE n = "Amina" -> 1 [] n = "Bako" -> 2 [] OTHER -> 3

\* a faulty SelectParents: the WHERE clause forgotten
SelectParentsAll(d, k, uid) == d.parents[k]

\* SELECT * FROM creditors WHERE user_id = $1
SelectParents(d, k, uid) == {p \in d.parents[k] : p.user_id = uid}

\* the arrays GET /api/creditors may answer with: ORDER BY full_name leaves
\* the order of rows with equal names open
ListRecords(d, k, uid) ==
    { s \in Orderings({WithTotals(d, k, p) : p \in SelectParents(d, k, uid)}) :
        \A i \in 1..Len(s) : \A j \in 1..Len(s) :
            (i < j) => NameRank(s[i].full_name) <= NameRank(s[j].full_name) }

\* SELECT * FROM payments WHERE user_id = $1
SelectPayments(d, uid) == {p \in d.payments : p.user_id = uid}

\* the arrays GET /api/payments may answer with; the model keeps no payment
\* date, so ORDER BY payment_date DESC leaves the order open
ListPayments(d, uid) ==
    { [n \in 1..Len(s) |-> [s[n] EXCEPT !.amount = parseFloat(@)]] :
        s \in Orderings(SelectPayments(d, uid)) }

RECURSIVE SumSet(_)
SumSet(S) ==
    IF S = {} THEN 0
    ELSE LET r == CHOOSE x \in S : TRUE IN r.amount + SumSet(S \ {r})

\* a faulty PendingTotal: the items of every status are summed
PendingTotalAnyStatus(d, k, uid) ==
    SumSet({i \in d.items[k] :
              \E p \in d.parents[k] : p.id = i.parent_id /\ p.user_id = uid})

\* SELECT COALESCE(SUM(ci.amount), 0) FROM creditor_items ci JOIN creditors c
\*   ON ci.creditor_id = c.id WHERE c.user_id = $1 AND ci.status = 'pending'
PendingTotal(d, k, uid) ==
    SumSet({i \in d.items[k] :
              /\ i.status = "pending"
              /\ \E p \in d.parents[k] : p.id = i.parent_id /\ p.user_id = uid})

\* a faulty netPosition: the operands swapped
netPositionSwapped(dt, ct) == parseFloat(ct) - parseFloat(dt)

\* (parseFloat(debtorTotal.rows[0].total) || 0) - (parseFloat(creditorTotal.rows[0].total) || 0)
netPosition(dt, ct) == parseFloat(dt) - parseFloat(ct)

\* the first n elements of a sequence: LIMIT n
Limit(s, n) == SubSeq(s, 1, IF Len(s) < n THEN Len(s) ELSE n)

\* src/server.js: SELECT * FROM payments WHERE user_id = $1 ORDER BY payment_date DESC LIMIT 5
RecentPayments(d, uid) == {Limit(s, RecentLimit) : s \in ListPayments(d, uid)}

\* the body GET /api/dashboard/stats answers with (src/server.js adds
\* recent_payments to it, one of RecentPayments)
DashboardStats(d, uid) ==
    LET ct == PendingTotal(d, "creditors", uid)
        dt == PendingTotal(d, "debtors", uid)
    IN [total_owed_to_creditors |-> parseFloat(ct),
        total_owed_by_debtors |-> parseFloat(dt),
        net_position |-> netPosition(dt, ct),
        creditor_count |-> Cardinality(SelectParents(d, "creditors", uid)),
        debtor_count |-> Cardinality(SelectParents(d, "debtors", uid))]

\* app.get('/api/creditors') and app.get('/api/debtors'): the status, and the
\* arrays the answer may be
getRecords(d, s, k) ==
    IF ~requireAuth(s) THEN [status |-> 401, bodies |-> {}]
    ELSE [status |-> 200, bodies |-> ListRecords(d, k, s.userId)]

\* app.get('/api/payments')
getPayments(d, s) ==
    IF ~requireAuth(s) THEN [status |-> 401, bodies |-> {}]
    ELSE [status |-> 200, bodies |-> ListPayments(d, s.userId)]

\* app.get('/api/dashboard/stats')
getStats(d, s) ==
    IF ~requireAuth(s) THEN [status |-> 401, bodies |-> {}]
    ELSE [status |-> 200, bodies |-> {DashboardStats(d, s.userId)}]

----------------------------------------------------------------------------
(* Ledger: the handlers that write.  Each takes the variant, the database   *)
(* and the session of the request, and yields the database it leaves and    *)
(* the status it answers with.                                              *)

\* a faulty requireAuth: the refusal is answered 403
UnauthorizedForbidden(d) == [db |-> d, status |-> 403]

Unauthorized(d) == [db |-> d, status |-> 401]

\* app.post('/api/creditors') and app.post('/api/debtors'), the same in both variants
postRecord(d, s, k, body, L) ==
    IF ~requireAuth(s) THEN Unauthorized(d)
    ELSE LET r1 == InsertParent(d, k, s.userId, body)
             r2 == InsertItems(r1.db, k, r1.id, L, 1)
         IN IF ~r1.ok THEN [db |-> r1.db, status |-> 500]
            ELSE [db |-> r2.db, status |-> IF r2.ok THEN 200 ELSE 500]

\* src/server.js: app.put('/api/creditors/:id') and app.put('/api/debtors/:id')
putRecordServer(d, s, k, id, body, L) ==
    IF ~requireAuth(s) THEN Unauthorized(d)
    ELSE IF SelectOwned(d, k, id, s.userId) = {} THEN [db |-> d, status |-> 404]
    ELSE LET r == InsertItems(DeleteItems(UpdateParent(d, k, id, body), k, id),
                              k, id, L, 1)
         IN [db |-> r.db, status |-> IF r.ok THEN 200 ELSE 500]

\* src/unnamed/part_001: app.put('/api/creditors/:id'), app.put('/api/debtors/:id')
putRecordPart001(d, s, k, id, body, L) ==
    IF ~requireAuth(s) THEN Unauthorized(d)
    ELSE LET r == InsertItems(
                    DeleteItems(UpdateParentOwned(d, k, id, s.userId, body), k, id),
                    k, id, L, 1)
         IN [db |-> r.db, status |-> IF r.ok THEN 200 ELSE 500]

putRecord(v, d, s, k, id, body, L) ==
    IF v = "server.js" THEN putRecordServer(d, s, k, id, body, L)
    ELSE putRecordPart001(d, s, k, id, body, L)

\* src/server.js: app.delete('/api/creditors/:id'), app.delete('/api/debtors/:id')
deleteRecordServer(d, s, k, id) ==
    IF ~requireAuth(s) THEN Unauthorized(d)
    ELSE IF SelectOwned(d, k, id, s.userId) = {} THEN [db |-> d, status |-> 404]
    ELSE [db |-> DeleteParent(DeleteItems(d, k, id), k, id), status |-> 200]

\* src/unnamed/part_001: app.delete('/api/creditors/:id'), '/api/debtors/:id'
deleteRecordPart001(d, s, k, id) ==
    IF ~requireAuth(s) THEN Unauthorized(d)
    ELSE [db |-> DeleteParentOwned(DeleteItems(d, k, id), k, id, s.userId),
          status |-> 200]

deleteRecord(v, d, s, k, id) ==
    IF v = "server.js" THEN deleteRecordServer(d, s, k, id)
    ELSE deleteRecordPart001(d, s, k, id)

\* src/server.js: app.post('/api/payments'): related_id || null is stored
postPaymentServer(d, s, body) ==
    IF ~requireAuth(s) THEN Unauthorized(d)
    ELSE LET r == InsertPayment(d, s.userId, body, NumOr(body, "related_id", 0))
         IN [db |-> r.db, status |-> IF r.ok THEN 200 ELSE 500]

\* src/unnamed/part_001: app.post('/api/payments'): related_id is not stored
postPaymentPart001(d, s, body) ==
    IF ~requireAuth(s) THEN Unauthorized(d)
    ELSE LET r == InsertPayment(d, s.userId, body, 0)
         IN [db |-> r.db, status |-> IF r.ok THEN 200 ELSE 500]

postPayment(v, d, s, body) ==
    IF v = "server.js" THEN postPaymentServer(d, s, body)
    ELSE postPaymentPart001(d, s, body)

\* src/server.js: app.delete('/api/payments/:id')
deletePaymentServer(d, s, id) ==
    IF ~requireAuth(s) THEN Unauthorized(d)
    ELSE IF {p \in d.payments : p.id = id /\ p.user_id = s.userId} = {}
    THEN [db |-> d, status |-> 404]
    ELSE [db |-> [d EXCEPT !.payments = {p \in @ : p.id # id}], status |-> 200]

\* src/unnamed/part_001: app.delete('/api/payments/:id')
deletePaymentPart001(d, s, id) ==
    IF ~requireAuth(s) THEN Unauthorized(d)
    ELSE [db |-> [d EXCEPT !.payments =
                    {p \in @ : ~(p.id = id /\ p.user_id = s.userId)}],
          status |-> 200]

deletePayment(v, d, s, id) ==
    IF v = "server.js" THEN deletePaymentServer(d, s, id)
    ELSE deletePaymentPart001(d, s, id)

----------------------------------------------------------------------------
(* Ledger: the requests *)

RecordsRoute(k) == IF k = "creditors" THEN "/api/creditors" ELSE "/api/debtors"
RecordRoute(k) == IF k = "creditors" THEN "/api/creditors/:id" ELSE "/api/debtors/:id"

\* what `exchange` keeps of a request: method, route, the :id of the route
\* (0 when it has none), browser, status answered
Exchange(c, method, route, id, status) ==
    [method |-> method, route |-> route, id |-> id, client |-> c, status |-> status]

Ids(rows) == {r.id : r \in rows}

PostRecord(c, k, body, L) ==
    /\ RowsInserted < MaxRows
    /\ ItemsInserted + Len(L) <= MaxItems
    /\ LET r == postRecord(DB, session[c], k, body, L)
       IN /\ Commit(r.db)
          /\ exchange' = Exchange(c, "POST", RecordsRoute(k), 0, r.status)
          /\ creator' = creator \cup
                {<<k, id, session[c].userId>> : id \in Ids(r.db.parents[k]) \ Ids(parents[k])}
    /\ UNCHANGED <<running, variant, session, deleted>>

PutRecord(c, k, id, body, L) ==
    /\ ItemsInserted + Len(L) <= MaxItems
    /\ LET r == putRecord(variant, DB, session[c], k, id, body, L)
       IN /\ Commit(r.db)
          /\ exchange' = Exchange(c, "PUT", RecordRoute(k), id, r.status)
    /\ UNCHANGED <<running, variant, session, creator, deleted>>

DeleteRecord(c, k, id) ==
    /\ LET r == deleteRecord(variant, DB, session[c], k, id)
       IN /\ Commit(r.db)
          /\ exchange' = Exchange(c, "DELETE", RecordRoute(k), id, r.status)
          /\ deleted' = IF /\ r.status = 200
                           /\ requireAuth(session[c])
                           /\ SelectOwned(DB, k, id, session[c].userId) # {}
                        THEN deleted \cup {<<k, id>>}
                        ELSE deleted
    /\ UNCHANGED <<running, variant, session, creator>>

GetRecords(c, k) ==
    /\ exchange' = Exchange(c, "GET", RecordsRoute(k), 0, getRecords(DB, session[c], k).status)
    /\ UNCHANGED <<running, variant, users, parents, items, payments, seq, session,
                   creator, deleted>>

PostPayment(c, body) ==
    /\ RowsInserted < MaxRows
    /\ LET r == postPayment(variant, DB, session[c], body)
       IN /\ Commit(r.db)
          /\ exchange' = Exchange(c, "POST", "/api/payments", 0, r.status)
          /\ creator' = creator \cup
                {<<"payments", id, session[c].userId>> :
                    id \in Ids(r.db.payments) \ Ids(payments)}
    /\ UNCHANGED <<running, variant, session, deleted>>

DeletePayment(c, id) ==
    /\ LET r == deletePayment(variant, DB, session[c], id)
       IN /\ Commit(r.db)
          /\ exchange' = Exchange(c, "DELETE", "/api/payments/:id", id, r.status)
    /\ UNCHANGED <<running, variant, session, creator, deleted>>

GetPayments(c) ==
    /\ exchange' = Exchange(c, "GET", "/api/payments", 0, getPayments(DB, session[c]).status)
    /\ UNCHANGED <<running, variant, users, parents, items, payments, seq, session,
                   creator, deleted>>

GetStats(c) ==
    /\ exchange' = Exchange(c, "GET", "/api/dashboard/stats", 0, getStats(DB, session[c]).status)
    /\ UNCHANGED <<running, variant, users, parents, items, payments, seq, session,
                   creator, deleted>>

----------------------------------------------------------------------------
(* Ledger, statement by statement.  Every pool.query of a handler is one    *)
(* statement, committed on its own: no handler opens a transaction.  A      *)
(* request in `running` holds what the handler holds between two awaits:    *)
(* its parameters, the statement it runs next (pc), the item the loop        *)
(* inserts next (i), and once answered the status and the statement it      *)
(* ended at.                                                                *)

\* the first statement of a handler once requireAuth has let the request in
FirstStatement(v, op) ==
    IF op = "POST" THEN "parent"
    ELSE IF v = "server.js" THEN "select"
    ELSE IF op = "PUT" THEN "update"
    ELSE "items"

\* res.json(...) after the last statement
Respond(q, status) == [q EXCEPT !.pc = "done", !.status = status, !.at = q.pc]

\* a faulty catch block: the failure is answered as a success
CaughtSuccess(q) == Respond(q, 200)

\* catch (err) { res.status(500).json({ error: err.message }) }
Caught(q) == Respond(q, 500)

\* for (const item of items) await pool.query('INSERT INTO ..._items ...'):
\* one turn of the loop
insertStatement(d, q) ==
    LET r == InsertItem(d, q.k, q.id, q.L[q.i])
    IN [db |-> r.db,
        req |-> IF ~r.ok THEN Caught(q)
                ELSE IF q.i = Len(q.L) THEN Respond([q EXCEPT !.i = @ + 1], 200)
                ELSE [q EXCEPT !.i = @ + 1]]

\* what follows the statement before the item loop
ToItemLoop(q) ==
    IF Len(q.L) = 0 THEN Respond(q, 200) ELSE [q EXCEPT !.pc = "insert", !.i = 1]

\* app.post('/api/creditors'), app.post('/api/debtors'): the next statement
postStatement(d, q) ==
    IF q.pc = "parent"
    THEN LET r == InsertParent(d, q.k, q.uid, q.body)
         IN [db |-> r.db,
             req |-> IF r.ok THEN ToItemLoop([q EXCEPT !.id = r.id]) ELSE Caught(q)]
    ELSE insertStatement(d, q)

\* app.put('/api/creditors/:id'), app.put('/api/debtors/:id'): the next statement
putStatement(v, d, q) ==
    IF q.pc = "select"
    THEN [db |-> d,
          req |-> IF SelectOwned(d, q.k, q.id, q.uid) = {} THEN Respond(q, 404)
                  ELSE [q EXCEPT !.pc = "update"]]
    ELSE IF q.pc = "update"
    THEN [db |-> IF v = "server.js" THEN UpdateParent(d, q.k, q.id, q.body)
                 ELSE UpdateParentOwned(d, q.k, q.id, q.uid, q.body),
          req |-> [q EXCEPT !.pc = "items"]]
    ELSE IF q.pc = "items"
    THEN [db |-> DeleteItems(d, q.k, q.id), req |-> ToItemLoop(q)]
    ELSE insertStatement(d, q)

\* app.delete('/api/creditors/:id'), app.delete('/api/debtors/:id'): the next
\* statement
deleteStatement(v, d, q) ==
    IF q.pc = "select"
    THEN [db |-> d,
          req |-> IF SelectOwned(d, q.k, q.id, q.uid) = {} THEN Respond(q, 404)
                  ELSE [q EXCEPT !.pc = "items"]]
    ELSE IF q.pc = "items"
    THEN [db |-> DeleteItems(d, q.k, q.id), req |-> [q EXCEPT !.pc = "parent"]]
    ELSE [db |-> IF v = "server.js" THEN DeleteParent(d, q.k, q.id)
                 ELSE DeleteParentOwned(d, q.k, q.id, q.uid),
          req |-> Respond(q, 200)]

Statement(v, d, q) ==
    IF q.op = "POST" THEN postStatement(d, q)
    ELSE IF q.op = "PUT" THEN putStatement(v, d, q)
    ELSE deleteStatement(v, d, q)

InFlight(q) == q.pc \notin {"idle", "done"}

RouteOf(q) == IF q.op = "POST" THEN RecordsRoute(q.k) ELSE RecordRoute(q.k)

Answered(q) == Exchange(q.client, q.op, RouteOf(q), IF q.op = "POST" THEN 0 ELSE q.id, q.status)

\* a request arrives: requireAuth, then the handler up to its first await
StartRequest(r, c, op, k, id, body, L) ==
    /\ running[r] = Idle
    /\ r = "r2" => running["r1"] # Idle
    /\ LET q == [Idle EXCEPT !.op = op, !.client = c, !.k = k, !.id = id,
                             !.body = body, !.L = L]
       IN IF requireAuth(session[c])
          THEN /\ running' = [running EXCEPT ![r] =
                                 [q EXCEPT !.uid = session[c].userId,
                                           !.pc = FirstStatement(variant, op)]]
               /\ UNCHANGED exchange
          ELSE /\ running' = [running EXCEPT ![r] = Respond(q, 401)]
               /\ exchange' = Answered(Respond(q, 401))
    /\ UNCHANGED <<variant, users, parents, items, payments, seq, session,
                   creator, deleted>>

\* the store runs the statement a request is waiting on
StepRequest(r) ==
    /\ InFlight(running[r])
    /\ LET s == Statement(variant, DB, running[r])
       IN /\ Commit(s.db)
          /\ running' = [running EXCEPT ![r] = s.req]
          /\ exchange' = IF s.req.pc = "done" THEN Answered(s.req) ELSE exchange
          /\ creator' = creator \cup UNION
                { {<<k, id, running[r].uid>> :
                      id \in Ids(s.db.parents[k]) \ Ids(parents[k])} : k \in Kinds }
          /\ deleted' = deleted \cup UNION
                { {<<k, id>> : id \in Ids(parents[k]) \ Ids(s.db.parents[k])} :
                  k \in Kinds }
    /\ UNCHANGED <<variant, session>>

\* the store fails the statement a request is waiting on (connection lost,
\* server restarting): pool.query rejects and the statement changes nothing
FailRequest(r) ==
    /\ InFlight(running[r])
    /\ running' = [running EXCEPT ![r] = Caught(@)]
    /\ exchange' = Answered(Caught(running[r]))
    /\ UNCHANGED <<variant, users, parents, items, payments, seq, session,
                   creator, deleted>>

----------------------------------------------------------------------------
(* Users and sessions *)

\* initDB: the default admin account, inserted when no user is named 'admin'
AdminRow(id) ==
    [id |-> id, username |-> "admin", email |-> "admin@ghouenzen.com",
     password_hash |-> bcryptHash("12345"), full_name |-> "Administrator",
     is_admin |-> TRUE, must_change_password |-> TRUE, last_login |-> 0]

\* the session fields src/server.js sets at login
SessionServer(u) ==
    [userId |-> u.id, username |-> u.username, isAdmin |-> u.is_admin]

\* the session fields src/unnamed/part_001 sets at login
SessionPart001(u) ==
    [userId |-> u.id, username |-> u.username, isAdmin |-> u.is_admin,
     mustChangePassword |-> u.must_change_password]

SessionOf(v, u) == IF v = "server.js" THEN SessionServer(u) ELSE SessionPart001(u)

\* String.prototype.toLowerCase and SQL LOWER, on the names the model uses
Lower(s) ==
    CASE s = "Admin" -> "admin"
      [] s = "Bob" -> "bob"
      [] s = "Bob@X.org" -> "bob@x.org"
      [] OTHER -> s

\* a faulty TooShort: only a missing or empty new password is refused
TooShortOnlyMissing(body) ==
    \/ "newPassword" \notin DOMAIN body
    \/ body.newPassword = ""

\* !newPassword || newPassword.length < 5
TooShort(body) ==
    \/ "newPassword" \notin DOMAIN body
    \/ body.newPassword = ""
    \/ Len(body.newPassword) < MinPasswordLength

\* SELECT ... FROM users WHERE id = $1
UserById(d, uid) == {u \in d.users : u.id = uid}

\* src/server.js: SELECT * FROM users WHERE username = $1 OR email = $1,
\* with username.toLowerCase() for $1
FindUserServer(d, name) ==
    {u \in d.users : u.username = Lower(name) \/ u.email = Lower(name)}

\* src/unnamed/part_001: SELECT * FROM users
\*   WHERE LOWER(username) = LOWER($1) OR LOWER(email) = LOWER($1)
FindUserPart001(d, name) ==
    {u \in d.users : Lower(u.username) = Lower(name) \/ Lower(u.email) = Lower(name)}

FindUser(v, d, name) ==
    IF v = "server.js" THEN FindUserServer(d, name) ELSE FindUserPart001(d, name)

\* UPDATE users SET last_login = CURRENT_TIMESTAMP WHERE id = $1
\* (last_login counts the times it has been set)
TouchLastLogin(d, uid) ==
    [d EXCEPT !.users = { IF u.id = uid THEN [u EXCEPT !.last_login = @ + 1] ELSE u :
                          u \in @ }]

\* a faulty SetPassword: the hash is written, the flag is left as it was
SetPasswordKeepsFlag(d, uid, pw, flag) ==
    [d EXCEPT !.users = { IF u.id = uid
                          THEN [u EXCEPT !.password_hash = bcryptHash(pw)]
                          ELSE u : u \in @ }]

\* UPDATE users SET password_hash = $1, must_change_password = <flag> WHERE id = $2
SetPassword(d, uid, pw, flag) ==
    [d EXCEPT !.users = { IF u.id = uid
                          THEN [u EXCEPT !.password_hash = bcryptHash(pw),
                                         !.must_change_password = flag]
                          ELSE u : u \in @ }]

\* src/unnamed/part_001: redirect: user.must_change_password ? '/change-password'
\*                                   : (user.is_admin ? '/admin' : '/dashboard')
LoginRedirect(u) ==
    IF u.must_change_password THEN "/change-password"
    ELSE IF u.is_admin THEN "/admin" ELSE "/dashboard"

\* what login answers about the user (src/server.js sends no redirect)
LoginReply(v, u) ==
    IF v = "server.js"
    THEN [id |-> u.id, must_change_password |-> u.must_change_password]
    ELSE [id |-> u.id, must_change_password |-> u.must_change_password,
          redirect |-> LoginRedirect(u)]

NoReply == [x \in {} |-> 0]

\* an answer with nothing in its body the claims need: the database and the
\* session the handler leaves, and the status
Answer(d, s, status) == [db |-> d, session |-> s, status |-> status, reply |-> NoReply]

\* an early return: the database and the session are left as they were
Refuse(d, s, status) == Answer(d, s, status)

----------------------------------------------------------------------------
(* Authentication: the handlers.  Each yields the database and the session  *)
(* it leaves, the status and what the claims need of the body it answers.   *)

\* app.post('/api/auth/login'): the possible answers, one for each row the
\* SELECT may return first
login(v, d, s, body) ==
    IF StrOr(body, "username", "") = "" \/ StrOr(body, "password", "") = ""
    THEN {Refuse(d, s, 400)}
    ELSE IF FindUser(v, d, body.username) = {} THEN {Refuse(d, s, 401)}
    ELSE { IF ~bcryptCompare(body.password, u.password_hash) THEN Refuse(d, s, 401)
           ELSE [db |-> TouchLastLogin(d, u.id), session |-> SessionOf(v, u),
                 status |-> 200, reply |-> LoginReply(v, u)] :
           u \in FindUser(v, d, body.username) }

\* a faulty logout: the session is not destroyed
logoutKeepsSession(d, s) == Answer(d, s, 200)

\* app.post('/api/auth/logout'): req.session.destroy
logout(d, s) == Answer(d, NoSession, 200)

\* src/server.js: app.get('/api/auth/status'): the flags are read from the store
statusServer(d, s) ==
    IF requireAuth(s) /\ UserById(d, s.userId) # {}
    THEN LET u == CHOOSE x \in UserById(d, s.userId) : TRUE
         IN [authenticated |-> TRUE, userId |-> s.userId, isAdmin |-> u.is_admin,
             mustChangePassword |-> u.must_change_password]
    ELSE [authenticated |-> FALSE]

\* a faulty statusPart001: the flags are read from the store
statusPart001OfStore(d, s) == statusServer(d, s)

\* src/unnamed/part_001: app.get('/api/auth/status'): the flags of the session
statusPart001(d, s) ==
    IF requireAuth(s)
    THEN [authenticated |-> TRUE, userId |-> s.userId, isAdmin |-> s.isAdmin,
          mustChangePassword |-> s.mustChangePassword]
    ELSE [authenticated |-> FALSE]

getStatus(v, d, s) ==
    [db |-> d, session |-> s, status |-> 200,
     reply |-> IF v = "server.js" THEN statusServer(d, s) ELSE statusPart001(d, s)]

\* app.get('/api/auth/profile'): src/server.js answers 404 when the row is
\* gone, src/unnamed/part_001 answers {}
getProfile(v, d, s) ==
    IF ~requireAuth(s) THEN Refuse(d, s, 401)
    ELSE IF UserById(d, s.userId) = {}
    THEN Refuse(d, s, IF v = "server.js" THEN 404 ELSE 200)
    ELSE [db |-> d, session |-> s, status |-> 200,
          reply |-> CHOOSE u \in UserById(d, s.userId) : TRUE]

\* app.put('/api/auth/profile'): full_name is NOT NULL, so a body without it
\* makes the UPDATE of an existing row throw
putProfile(d, s, body) ==
    IF ~requireAuth(s) THEN Refuse(d, s, 401)
    ELSE IF UserById(d, s.userId) # {} /\ "full_name" \notin DOMAIN body
    THEN Refuse(d, s, 500)
    ELSE Answer([d EXCEPT !.users = { IF u.id = s.userId
                                      THEN [u EXCEPT !.full_name = body.full_name]
                                      ELSE u : u \in @ }], s, 200)

\* a faulty ClearSessionFlag: the session keeps its flag
ClearSessionFlagNot(v, s) == s

\* src/unnamed/part_001: req.session.mustChangePassword = false
ClearSessionFlag(v, s) ==
    IF v = "server.js" THEN s ELSE [s EXCEPT !.mustChangePassword = FALSE]

\* app.put('/api/auth/password'): result.rows[0] throws when the row is gone,
\* bcrypt.compare throws when currentPassword is missing
putPassword(v, d, s, body) ==
    IF ~requireAuth(s) THEN Refuse(d, s, 401)
    ELSE IF TooShort(body) THEN Refuse(d, s, 400)
    ELSE IF UserById(d, s.userId) = {} \/ "currentPassword" \notin DOMAIN body
    THEN Refuse(d, s, 500)
    ELSE LET u == CHOOSE x \in UserById(d, s.userId) : TRUE
         IN IF ~bcryptCompare(body.currentPassword, u.password_hash)
            THEN Refuse(d, s, 400)
            ELSE Answer(SetPassword(d, s.userId, body.newPassword, FALSE),
                        ClearSessionFlag(v, s), 200)

\* a faulty forcePasswordChange: the current password is verified first
forcePasswordChangeVerifying(v, d, s, body) == putPassword(v, d, s, body)

\* app.put('/api/auth/force-password-change')
forcePasswordChange(v, d, s, body) ==
    IF ~requireAuth(s) THEN Refuse(d, s, 401)
    ELSE IF TooShort(body) THEN Refuse(d, s, 400)
    ELSE Answer(SetPassword(d, s.userId, body.newPassword, FALSE),
                ClearSessionFlag(v, s), 200)

----------------------------------------------------------------------------
(* Administration: the handlers *)

\* a faulty InsertUser: the columns are not UNIQUE
InsertUserNotUnique(d, username, email, pw, body) ==
    LET id == d.seq["users"]
        row == [id |-> id, username |-> username, email |-> email,
                password_hash |-> bcryptHash(pw),
                full_name |-> StrOr(body, "full_name", ""),
                is_admin |-> "is_admin" \in DOMAIN body /\ body.is_admin,
                must_change_password |-> TRUE, last_login |-> 0]
    IN IF \/ "username" \notin DOMAIN body
          \/ "email" \notin DOMAIN body
          \/ "full_name" \notin DOMAIN body
       THEN [db |-> NextVal(d, "users"), ok |-> FALSE]
       ELSE [db |-> [NextVal(d, "users") EXCEPT !.users = @ \cup {row}], ok |-> TRUE]

\* a faulty InsertUser: must_change_password is taken from the body when it
\* carries one
InsertUserFlagOfBody(d, username, email, pw, body) ==
    LET id == d.seq["users"]
        row == [id |-> id, username |-> username, email |-> email,
                password_hash |-> bcryptHash(pw),
                full_name |-> StrOr(body, "full_name", ""),
                is_admin |-> "is_admin" \in DOMAIN body /\ body.is_admin,
                must_change_password |->
                    IF "must_change_password" \in DOMAIN body
                    THEN body.must_change_password ELSE TRUE,
                last_login |-> 0]
    IN IF \/ "username" \notin DOMAIN body
          \/ "email" \notin DOMAIN body
          \/ "full_name" \notin DOMAIN body
          \/ \E u \in d.users : u.username = username \/ u.email = email
       THEN [db |-> NextVal(d, "users"), ok |-> FALSE]
       ELSE [db |-> [NextVal(d, "users") EXCEPT !.users = @ \cup {row}], ok |-> TRUE]

\* INSERT INTO users (...) VALUES (..., TRUE): username and email are UNIQUE
\* and, like full_name, NOT NULL; nextval is consumed even when it fails
InsertUser(d, username, email, pw, body) ==
    LET id == d.seq["users"]
        row == [id |-> id, username |-> username, email |-> email,
                password_hash |-> bcryptHash(pw),
                full_name |-> StrOr(body, "full_name", ""),
                is_admin |-> "is_admin" \in DOMAIN body /\ body.is_admin,
                must_change_password |-> TRUE, last_login |-> 0]
    IN IF \/ "username" \notin DOMAIN body
          \/ "email" \notin DOMAIN body
          \/ "full_name" \notin DOMAIN body
          \/ \E u \in d.users : u.username = username \/ u.email = email
       THEN [db |-> NextVal(d, "users"), ok |-> FALSE]
       ELSE [db |-> [NextVal(d, "users") EXCEPT !.users = @ \cup {row}], ok |-> TRUE]

\* src/server.js: app.post('/api/admin/users')
createUserServer(d, s, body) ==
    IF ~requireAdmin(s) THEN Refuse(d, s, 403)
    ELSE IF \/ StrOr(body, "username", "") = "" \/ StrOr(body, "email", "") = ""
            \/ StrOr(body, "password", "") = "" \/ StrOr(body, "full_name", "") = ""
    THEN Refuse(d, s, 400)
    ELSE IF \E u \in d.users :
               u.username = Lower(body.username) \/ u.email = Lower(body.email)
    THEN Refuse(d, s, 400)
    ELSE LET r == InsertUser(d, Lower(body.username), Lower(body.email),
                             body.password, body)
         IN Answer(r.db, s, IF r.ok THEN 200 ELSE 500)

\* src/unnamed/part_001: app.post('/api/admin/users')
createUserPart001(d, s, body) ==
    IF ~requireAdmin(s) THEN Refuse(d, s, 403)
    ELSE LET r == InsertUser(d, Lower(StrOr(body, "username", "")),
                             Lower(StrOr(body, "email", "")),
                             StrOr(body, "password", "12345"), body)
         IN Answer(r.db, s, IF r.ok THEN 200 ELSE 500)

createUser(v, d, s, body) ==
    IF v = "server.js" THEN createUserServer(d, s, body) ELSE createUserPart001(d, s, body)

\* app.put('/api/admin/users/:id'): UPDATE users SET full_name, email, phone,
\* address, is_admin WHERE id = $6.  In src/server.js email.toLowerCase()
\* throws when email is missing; in src/unnamed/part_001 LOWER(NULL) is NULL
\* and the UPDATE throws only when it finds the row.
updateUser(v, d, s, id, body) ==
    IF ~requireAdmin(s) THEN Refuse(d, s, 403)
    ELSE IF v = "server.js" /\ "email" \notin DOMAIN body THEN Refuse(d, s, 500)
    ELSE IF UserById(d, id) = {} THEN Answer(d, s, 200)
    ELSE IF \/ "email" \notin DOMAIN body
            \/ "full_name" \notin DOMAIN body
            \/ \E u \in d.users : u.id # id /\ u.email = Lower(body.email)
    THEN Refuse(d, s, 500)
    ELSE Answer([d EXCEPT !.users =
                    { IF u.id = id
                      THEN [u EXCEPT !.full_name = body.full_name,
                                     !.email = Lower(body.email),
                                     !.is_admin = "is_admin" \in DOMAIN body /\ body.is_admin]
                      ELSE u : u \in @ }], s, 200)

\* app.put('/api/admin/users/:id/reset-password'): src/server.js takes
\* newPassword || '12345', src/unnamed/part_001 always '12345'
resetPassword(v, d, s, id, body) ==
    IF ~requireAdmin(s) THEN Refuse(d, s, 403)
    ELSE Answer(SetPassword(d, id,
                            IF v = "server.js" THEN StrOr(body, "newPassword", "12345")
                            ELSE "12345",
                            TRUE), s, 200)

\* app.delete('/api/admin/users/:id')
deleteUser(d, s, id) ==
    IF ~requireAdmin(s) THEN Refuse(d, s, 403)
    ELSE IF id = s.userId THEN Refuse(d, s, 400)
    ELSE Answer(DeleteUserRow(d, id), s, 200)

\* app.get('/api/admin/users')
getUsers(d, s) ==
    IF ~requireAdmin(s) THEN Refuse(d, s, 403)
    ELSE [db |-> d, session |-> s, status |-> 200, reply |-> d.users]

----------------------------------------------------------------------------
(* Pages *)

Pages == {"/login", "/change-password", "/dashboard", "/admin"}

\* a redirect to another page
Redirect(d, s, to) ==
    [db |-> d, session |-> s, status |-> 302, reply |-> [redirect |-> to]]

\* src/server.js: every page is sent to whoever asks
pageServer(d, s, page) == Answer(d, s, 200)

\* src/unnamed/part_001: the page routes
pagePart001(d, s, page) ==
    IF page = "/login" THEN Answer(d, s, 200)
    ELSE IF ~requireAuth(s) THEN Redirect(d, s, "/login")
    ELSE IF page = "/change-password" THEN Answer(d, s, 200)
    ELSE IF s.mustChangePassword THEN Redirect(d, s, "/change-password")
    ELSE IF page = "/admin" /\ ~s.isAdmin THEN Redirect(d, s, "/dashboard")
    ELSE Answer(d, s, 200)

getPage(v, d, s, page) ==
    IF v = "server.js" THEN pageServer(d, s, page) ELSE pagePart001(d, s, page)

\* src/unnamed/part_000, the script of the dashboard page, on DOMContentLoaded:
\* where the browser is once the script has read /api/auth/status
dashboardAuthCheck(st) ==
    IF ~st.authenticated THEN "/login"
    ELSE IF st.mustChangePassword THEN "/change-password"
    ELSE "/dashboard"

\* where a browser that asks for a page ends: where the server redirects it,
\* else where the page's script sends it (of the pages' scripts only the
\* dashboard's is in the source)
Landing(v, d, s, page) ==
    LET r == getPage(v, d, s, page)
    IN IF r.status = 302 THEN r.reply.redirect
       ELSE IF page = "/dashboard" THEN dashboardAuthCheck(getStatus(v, d, s).reply)
       ELSE page

----------------------------------------------------------------------------
(* Statements: src/unnamed/part_000 renders one element of the creditors    *)
(* (debtors) array the listing answered as a letter.  A statement is        *)
(* modelled by its parts: the title, the letterhead, the item table (absent *)
(* or one table of rows and a total row) and the amount box.                *)

\* new Intl.NumberFormat('en-US').format(Math.round(amount)) + ' XAF': the
\* whole units shown, thousandths in (Math.round rounds halves up)
formatCurrency(amount) == (amount + 500) \div 1000

\* a faulty title: the English titles whatever the language
titleEnglish(rec) == IF rec.gender = "female" THEN "Mrs." ELSE "Mr."

\* const lang = creditor.language || 'english';
\* const title = creditor.gender === 'female' ? (lang === 'french' ? 'Mme' : 'Mrs.')
\*                                            : (lang === 'french' ? 'M.' : 'Mr.')
title(rec) ==
    LET lang == StrOr(rec, "language", "english")
    IN IF rec.gender = "female" THEN (IF lang = "french" THEN "Mme" ELSE "Mrs.")
       ELSE (IF lang = "french" THEN "M." ELSE "Mr.")

\* itemsHtml: creditor.items?.length > 0 ? <table> ... </table> : ''
itemsHtml(rec) ==
    IF Len(rec.items) > 0
    THEN << [rows |-> [n \in 1..Len(rec.items) |->
                         [index |-> n,
                          reason |-> StrOr(rec.items[n], "reason", "-"),
                          amount |-> formatCurrency(rec.items[n].amount),
                          status |-> rec.items[n].status]],
             total |-> formatCurrency(rec.total_amount)] >>
    ELSE << >>

\* the letter: the French template when lang === 'french', else the English
Letter(rec, french, english) ==
    [letterhead |-> IF StrOr(rec, "language", "english") = "french" THEN french ELSE english,
     title |-> title(rec),
     full_name |-> rec.full_name,
     table |-> itemsHtml(rec),
     amount_box |-> formatCurrency(rec.total_amount)]

generateCreditorStatement(creditor) ==
    Letter(creditor, "RELEVE DE CONFIRMATION DE DETTE", "DEBT CONFIRMATION STATEMENT")

generateDebtorStatement(debtor) ==
    Letter(debtor, "RELEVE DE CREANCE", "OUTSTANDING DEBT STATEMENT")

----------------------------------------------------------------------------
(* Startup.  initDB runs once each time the server starts, before it        *)
(* listens; the database and the session store (a table of it) outlive the  *)
(* process.  It yields the database it leaves and whether it succeeded: a   *)
(* query that throws makes the process exit.                                *)

\* INSERT INTO users (...) VALUES ('admin', 'admin@ghouenzen.com', $1,
\*   'Administrator', TRUE, TRUE), with the hash of '12345'
InsertAdmin(d) ==
    IF \E u \in d.users : u.email = AdminRow(0).email
    THEN [db |-> NextVal(d, "users"), ok |-> FALSE]
    ELSE [db |-> [NextVal(d, "users") EXCEPT !.users = @ \cup {AdminRow(d.seq["users"])}],
          ok |-> TRUE]

\* src/server.js: SELECT id FROM users WHERE username = 'admin';
\* if (adminCheck.rows.length === 0) INSERT ...
initDBServer(d) ==
    IF ~\E u \in d.users : u.username = "admin" THEN InsertAdmin(d)
    ELSE [db |-> d, ok |-> TRUE]

\* src/unnamed/part_001: as src/server.js, else when '12345' verifies against
\* the row's hash, UPDATE users SET must_change_password = TRUE WHERE username = 'admin'
initDBPart001(d) ==
    IF ~\E u \in d.users : u.username = "admin" THEN InsertAdmin(d)
    ELSE [db |-> [d EXCEPT !.users =
                    { IF u.username = "admin" /\ bcryptCompare("12345", u.password_hash)
                      THEN [u EXCEPT !.must_change_password = TRUE]
                      ELSE u : u \in @ }],
          ok |-> TRUE]

initDB(v, d) == IF v = "server.js" THEN initDBServer(d) ELSE initDBPart001(d)

----------------------------------------------------------------------------
(* Authentication, administration and pages: the requests *)

LoginBodies ==
    {[username |-> n, password |-> p] : n \in {"Admin", "bob", "Bob@X.org"}, p \in Passwords}
        \cup {[username |-> "admin"]}

PasswordBodies ==
    { [currentPassword |-> "12345", newPassword |-> "s3cret"],
      [currentPassword |-> "s3cret", newPassword |-> "s3cret"],
      [currentPassword |-> "12345", newPassword |-> "abcd"],
      [currentPassword |-> "12345", newPassword |-> "12345"],
      [currentPassword |-> "12345"] }

ProfileBodies == { [full_name |-> "Bob"], [phone |-> "555"] }

NewUserBodies ==
    { [username |-> "Bob", email |-> "Bob@X.org", password |-> "12345", full_name |-> "Bob"],
      [username |-> "Bob", email |-> "Bob@X.org", full_name |-> "Bob"] }

UpdateUserBodies ==
    { [full_name |-> "Bob", email |-> "Bob@X.org", is_admin |-> TRUE],
      [full_name |-> "Bob", email |-> "admin@ghouenzen.com"],
      [full_name |-> "Bob"] }

ResetBodies == { [newPassword |-> "s3cret"], [x \in {} |-> 0] }

\* the ids a request may name
UserIds == 1..MaxUsers

\* a handler's answer r to browser c takes effect
Handled(c, r, method, route, id) ==
    /\ Commit(r.db)
    /\ session' = [session EXCEPT ![c] = r.session]
    /\ exchange' = Exchange(c, method, route, id, r.status)

Login(c, body) ==
    \E r \in login(variant, DB, session[c], body) :
        /\ \A u \in r.db.users : u.last_login <= MaxLogins
        /\ Handled(c, r, "POST", "/api/auth/login", 0)
        /\ UNCHANGED <<running, variant, creator, deleted>>

Logout(c) ==
    LET r == logout(DB, session[c])
    IN /\ Handled(c, r, "POST", "/api/auth/logout", 0)
       /\ UNCHANGED <<running, variant, creator, deleted>>

GetStatus(c) ==
    LET r == getStatus(variant, DB, session[c])
    IN /\ Handled(c, r, "GET", "/api/auth/status", 0)
       /\ UNCHANGED <<running, variant, creator, deleted>>

GetProfile(c) ==
    LET r == getProfile(variant, DB, session[c])
    IN /\ Handled(c, r, "GET", "/api/auth/profile", 0)
       /\ UNCHANGED <<running, variant, creator, deleted>>

PutProfile(c, body) ==
    LET r == putProfile(DB, session[c], body)
    IN /\ Handled(c, r, "PUT", "/api/auth/profile", 0)
       /\ UNCHANGED <<running, variant, creator, deleted>>

PutPassword(c, body) ==
    LET r == putPassword(variant, DB, session[c], body)
    IN /\ Handled(c, r, "PUT", "/api/auth/password", 0)
       /\ UNCHANGED <<running, variant, creator, deleted>>

ForcePasswordChange(c, body) ==
    LET r == forcePasswordChange(variant, DB, session[c], body)
    IN /\ Handled(c, r, "PUT", "/api/auth/force-password-change", 0)
       /\ UNCHANGED <<running, variant, creator, deleted>>

GetUsers(c) ==
    LET r == getUsers(DB, session[c])
    IN /\ Handled(c, r, "GET", "/api/admin/users", 0)
       /\ UNCHANGED <<running, variant, creator, deleted>>

CreateUser(c, body) ==
    /\ seq["users"] - 1 < MaxUsers
    /\ LET r == createUser(variant, DB, session[c], body)
       IN /\ Handled(c, r, "POST", "/api/admin/users", 0)
          /\ UNCHANGED <<running, variant, creator, deleted>>

UpdateUser(c, id, body) ==
    LET r == updateUser(variant, DB, session[c], id, body)
    IN /\ Handled(c, r, "PUT", "/api/admin/users/:id", id)
       /\ UNCHANGED <<running, variant, creator, deleted>>

ResetPassword(c, id, body) ==
    LET r == resetPassword(variant, DB, session[c], id, body)
    IN /\ Handled(c, r, "PUT", "/api/admin/users/:id/reset-password", id)
       /\ UNCHANGED <<running, variant, creator, deleted>>

DeleteUser(c, id) ==
    LET r == deleteUser(DB, session[c], id)
    IN /\ Handled(c, r, "DELETE", "/api/admin/users/:id", id)
       /\ UNCHANGED <<running, variant, creator, deleted>>

GetPage(c, page) ==
    LET r == getPage(variant, DB, session[c], page)
    IN /\ Handled(c, r, "GET", page, 0)
       /\ UNCHANGED <<running, variant, creator, deleted>>

\* the server stops and starts again: initDB runs on the database as it is,
\* and the sessions are those of the session table
Restart ==
    LET r == initDB(variant, DB)
    IN /\ r.ok
       /\ Cardinality(r.db.users) <= MaxUsers
       /\ Commit(r.db)
       /\ UNCHANGED <<running, variant, session, exchange, creator, deleted>>

----------------------------------------------------------------------------
(* The server after startup: initDB has created the tables and the admin *)

Init ==
    /\ variant \in Variants
    /\ users = {AdminRow(1)}
    /\ parents = [k \in Kinds |-> {}]
    /\ items = [k \in Kinds |-> {}]
    /\ payments = {}
    /\ seq = [t \in Tables |-> IF t = "users" THEN 2 ELSE 1]
    /\ session = [c \in Clients |-> NoSession]
    /\ exchange = Exchange("c1", "GET", "/login", 0, 200)
    /\ creator = {}
    /\ deleted = {}
    /\ running = [r \in Slots |-> Idle]

NextAuth ==
    \/ \E c \in Clients, b \in LoginBodies : Login(c, b)
    \/ \E c \in Clients : Logout(c)
    \/ \E c \in Clients : GetStatus(c)
    \/ \E c \in Clients : GetProfile(c)
    \/ \E c \in Clients, b \in ProfileBodies : PutProfile(c, b)
    \/ \E c \in Clients, b \in PasswordBodies : PutPassword(c, b)
    \/ \E c \in Clients, b \in PasswordBodies : ForcePasswordChange(c, b)
    \/ \E c \in Clients : GetUsers(c)
    \/ \E c \in Clients, b \in NewUserBodies : CreateUser(c, b)
    \/ \E c \in Clients, id \in UserIds, b \in UpdateUserBodies : UpdateUser(c, id, b)
    \/ \E c \in Clients, id \in UserIds, b \in ResetBodies : ResetPassword(c, id, b)
    \/ \E c \in Clients, id \in UserIds : DeleteUser(c, id)
    \/ \E c \in Clients, p \in Pages : GetPage(c, p)
    \/ Restart

\* logging in, passwords, profiles, user administration and pages
SpecAuth == Init /\ [][NextAuth]_vars

----------------------------------------------------------------------------
(* The ledger at work: two users, each logged in from a browser of their own *)

\* the user an admin has created with username Bob and email Bob@X.org
BobRow(id) ==
    [id |-> id, username |-> "bob", email |-> "bob@x.org",
     password_hash |-> bcryptHash("12345"), full_name |-> "Bob",
     is_admin |-> FALSE, must_change_password |-> TRUE, last_login |-> 0]

\* The admin has logged in on c1, changed the default password and created
\* Bob; Bob has logged in on c2 and changed the password.
InitLedger ==
    /\ variant \in Variants
    /\ users = { [AdminRow(1) EXCEPT !.password_hash = bcryptHash("s3cret"),
                                     !.must_change_password = FALSE,
                                     !.last_login = 1],
                 [BobRow(2) EXCEPT !.password_hash = bcryptHash("s3cret"),
                                   !.must_change_password = FALSE,
                                   !.last_login = 1] }
    /\ parents = [k \in Kinds |-> {}]
    /\ items = [k \in Kinds |-> {}]
    /\ payments = {}
    /\ seq = [t \in Tables |-> IF t = "users" THEN 3 ELSE 1]
    /\ session = [c \in Clients |->
                    IF c = "c1"
                    THEN SessionOf(variant, [AdminRow(1) EXCEPT !.must_change_password = FALSE])
                    ELSE SessionOf(variant, [BobRow(2) EXCEPT !.must_change_password = FALSE])]
    /\ exchange = Exchange("c2", "PUT", "/api/auth/password", 0, 200)
    /\ creator = {}
    /\ deleted = {}
    /\ running = [r \in Slots |-> Idle]

NextLedger ==
    \/ \E c \in Clients, k \in Kinds, b \in Bodies, L \in ItemLists : PostRecord(c, k, b, L)
    \/ \E c \in Clients, k \in Kinds, id \in 1..MaxRows, b \in Bodies, L \in ItemLists :
          PutRecord(c, k, id, b, L)
    \/ \E c \in Clients, k \in Kinds, id \in 1..MaxRows : DeleteRecord(c, k, id)
    \/ \E c \in Clients, k \in Kinds : GetRecords(c, k)
    \/ \E c \in Clients, b \in PaymentBodies : PostPayment(c, b)
    \/ \E c \in Clients, id \in 1..MaxRows : DeletePayment(c, id)
    \/ \E c \in Clients : GetPayments(c)
    \/ \E c \in Clients : GetStats(c)

\* creditors, debtors, payments and statistics, for two users at work
SpecLedger == InitLedger /\ [][NextLedger]_vars

\* The ledger after Bob has stored one creditor with one item: the state
\* SpecLedger reaches from InitLedger by POST /api/creditors on c2.
StepsStart(v) ==
    LET d0 == [users |-> { [AdminRow(1) EXCEPT !.password_hash = bcryptHash("s3cret"),
                                               !.must_change_password = FALSE,
                                               !.last_login = 1],
                           [BobRow(2) EXCEPT !.password_hash = bcryptHash("s3cret"),
                                             !.must_change_password = FALSE,
                                             !.last_login = 1] },
               parents |-> [k \in Kinds |-> {}],
               items |-> [k \in Kinds |-> {}],
               payments |-> {},
               seq |-> [t \in Tables |-> IF t = "users" THEN 3 ELSE 1]]
        bob == SessionOf(v, [BobRow(2) EXCEPT !.must_change_password = FALSE])
    IN postRecord(d0, bob, "creditors", [full_name |-> "Bako"],
                  << [reason |-> "loan", amount |-> 5000, status |-> "pending"] >>).db

\* StepsStart is the store of the running server in some state of SpecLedger
StepsStartIsStored == DB = StepsStart(variant) /\ exchange.route = "/api/creditors"

InitSteps ==
    /\ variant \in Variants
    /\ users = StepsStart(variant).users
    /\ parents = StepsStart(variant).parents
    /\ items = StepsStart(variant).items
    /\ payments = StepsStart(variant).payments
    /\ seq = StepsStart(variant).seq
    /\ session = [c \in Clients |->
                    IF c = "c1"
                    THEN SessionOf(variant, [AdminRow(1) EXCEPT !.must_change_password = FALSE])
                    ELSE SessionOf(variant, [BobRow(2) EXCEPT !.must_change_password = FALSE])]
    /\ exchange = Exchange("c2", "POST", "/api/creditors", 0, 200)
    /\ creator = {<<"creditors", 1, 2>>}
    /\ deleted = {}
    /\ running = [r \in Slots |-> Idle]

NextSteps ==
    \/ \E r \in Slots, c \in Clients, op \in {"POST", "PUT", "DELETE"},
          b \in Bodies, L \in StepLists :
          StartRequest(r, c, op, "creditors", IF op = "POST" THEN 0 ELSE 1,
                       IF op = "DELETE" THEN Idle.body ELSE b,
                       IF op = "DELETE" THEN << >> ELSE L)
    \/ \E r \in Slots : StepRequest(r)
    \/ \E r \in Slots : FailRequest(r)
    \/ \E c \in Clients, id \in 1..MaxUsers : DeleteUser(c, id)

\* two requests on creditors interleaved statement by statement, the store
\* failing at will, and the admin deleting users meanwhile
SpecSteps == InitSteps /\ [][NextSteps]_vars

\* InitLedger but for `variant` and `exchange`: a state SpecAuth reaches, by
\* the admin logging in on c1 and changing the password, creating Bob, and
\* Bob logging in on c2 and changing the password
LedgerStart ==
    /\ users = { [AdminRow(1) EXCEPT !.password_hash = bcryptHash("s3cret"),
                                     !.must_change_password = FALSE,
                                     !.last_login = 1],
                 [BobRow(2) EXCEPT !.password_hash = bcryptHash("s3cret"),
                                   !.must_change_password = FALSE,
                                   !.last_login = 1] }
    /\ seq["users"] = 3
    /\ session = [c \in Clients |->
                    IF c = "c1"
                    THEN SessionOf(variant, [AdminRow(1) EXCEPT !.must_change_password = FALSE])
                    ELSE SessionOf(variant, [BobRow(2) EXCEPT !.must_change_password = FALSE])]
    /\ exchange = Exchange("c2", "PUT", "/api/auth/password", 0, 200)

----------------------------------------------------------------------------
(* The whole server.  SpecAuth and SpecLedger are the two parts of it that   *)
(* are explored exhaustively.                                               *)

Next == NextAuth \/ NextLedger

Spec == Init /\ [][Next]_vars

----------------------------------------------------------------------------
(* What the claims speak of *)

\* the rows a user owns, items being owned through their parent record
OwnedBy(d, uid) ==
    [parents |-> [k \in Kinds |-> {p \in d.parents[k] : p.user_id = uid}],
     items |-> [k \in Kinds |->
                  {i \in d.items[k] :
                      \E p \in d.parents[k] : p.id = i.parent_id /\ p.user_id = uid}],
     payments |-> {p \in d.payments : p.user_id = uid}]

\* the database with only the rows of one user in it
OnlyRowsOf(d, uid) ==
    [d EXCEPT !.parents = OwnedBy(d, uid).parents,
              !.items = OwnedBy(d, uid).items,
              !.payments = OwnedBy(d, uid).payments]

\* the parent, item and payment rows of a database
Rows(d) == <<d.parents, d.items, d.payments>>

\* the answers to every creditor, debtor and payment request (POST, PUT,
\* DELETE) a browser may send now, whatever body and :id it carries
WriteResults(c) ==
    LET s == session[c]
    IN {postRecord(DB, s, k, b, L) : k \in Kinds, b \in Bodies, L \in ItemLists}
       \cup {putRecord(variant, DB, s, k, id, b, L) :
                k \in Kinds, id \in 1..MaxRows, b \in Bodies, L \in ItemLists}
       \cup {deleteRecord(variant, DB, s, k, id) : k \in Kinds, id \in 1..MaxRows}
       \cup {postPayment(variant, DB, s, b) : b \in PaymentBodies}
       \cup {deletePayment(variant, DB, s, id) : id \in 1..MaxRows}

\* the browsers that are logged in
LoggedIn == {c \in Clients : requireAuth(session[c])}

\* the sum of the amounts of the items of a sequence at the positions in P
RECURSIVE AmountsAt(_, _)
AmountsAt(its, P) ==
    IF P = {} THEN 0
    ELSE LET j == CHOOSE x \in P : TRUE
         IN its[j].amount + AmountsAt(its, P \ {j})

\* the items stored under a parent, ORDER BY id, as reason, amount and status
StoredItems(d, k, pid) ==
    LET rows == OrderById({i \in d.items[k] : i.parent_id = pid})
    IN [n \in 1..Len(rows) |->
          [reason |-> rows[n].reason, amount |-> rows[n].amount,
           status |-> rows[n].status]]

----------------------------------------------------------------------------
(* C1 *)

\* C1: in both variants, no creditor, debtor or payment request (POST, PUT,
\* DELETE) sent with U's session, whatever :id it carries, changes a
\* creditor, debtor, item or payment row owned by another user V.
NoCrossUserWrite ==
    \A c \in LoggedIn : \A r \in WriteResults(c) : \A v \in users :
        v.id # session[c].userId => OwnedBy(r.db, v.id) = OwnedBy(DB, v.id)

\* what src/server.js alone guarantees
NoCrossUserWriteServer == (variant = "server.js") => NoCrossUserWrite

----------------------------------------------------------------------------
(* C2 *)

\* C2: whatever requests came before, the creditors and debtors listed for U
\* are rows whose user_id is U and that U created; the payments listed and
\* the dashboard statistics are what they would be were U's rows the only
\* rows in the database.
ListingsOnlyOwn ==
    \A c \in LoggedIn :
        LET u == session[c].userId
            mine == OnlyRowsOf(DB, u)
        IN /\ \A k \in Kinds : \A arr \in ListRecords(DB, k, u) :
                \A n \in 1..Len(arr) :
                    /\ arr[n].user_id = u
                    /\ \A w \in {x.id : x \in users} :
                          <<k, arr[n].id, w>> \in creator => w = u
           /\ \A k \in Kinds : ListRecords(DB, k, u) = ListRecords(mine, k, u)
           /\ \A arr \in ListPayments(DB, u) : \A n \in 1..Len(arr) :
                /\ arr[n].user_id = u
                /\ <<"payments", arr[n].id, u>> \in creator
           /\ ListPayments(DB, u) = ListPayments(mine, u)
           /\ DashboardStats(DB, u) = DashboardStats(mine, u)
           /\ RecentPayments(DB, u) = RecentPayments(mine, u)

\* a listing has been answered while two users each have a creditor and a payment
ListingsOnlyOwnWitness ==
    /\ exchange.method = "GET"
    /\ exchange.route = "/api/creditors"
    /\ exchange.status = 200
    /\ \E p \in parents["creditors"] : p.user_id = session[exchange.client].userId
    /\ \E p \in parents["creditors"] : p.user_id # session[exchange.client].userId

----------------------------------------------------------------------------
(* C3 *)

\* a request is refused, or redirected to the password-change flow
Turned(r) ==
    \/ r.status \in {401, 403}
    \/ r.status = 302 /\ r.reply.redirect = "/change-password"

\* the browsers whose user's must_change_password is still true
MustChange ==
    {c \in LoggedIn : \E u \in users : u.id = session[c].userId /\ u.must_change_password}

\* C3: while the logged-in user's must_change_password is true, every request
\* with that session to the creditor, debtor, payment, statistics, profile
\* and admin API routes and to the /dashboard and /admin pages is refused or
\* redirected to the password-change flow.
MustChangeBlocksRoutes ==
    \A c \in MustChange :
        LET s == session[c]
        IN /\ \A r \in WriteResults(c) : Turned(r)
           /\ \A k \in Kinds : Turned(getRecords(DB, s, k))
           /\ Turned(getPayments(DB, s))
           /\ Turned(getStats(DB, s))
           /\ Turned(getProfile(variant, DB, s))
           /\ \A b \in ProfileBodies : Turned(putProfile(DB, s, b))
           /\ Turned(getUsers(DB, s))
           /\ \A b \in NewUserBodies : Turned(createUser(variant, DB, s, b))
           /\ \A id \in UserIds : \A b \in UpdateUserBodies :
                Turned(updateUser(variant, DB, s, id, b))
           /\ \A id \in UserIds : \A b \in ResetBodies :
                Turned(resetPassword(variant, DB, s, id, b))
           /\ \A id \in UserIds : Turned(deleteUser(DB, s, id))
           /\ \A p \in {"/dashboard", "/admin"} : Turned(getPage(variant, DB, s, p))

\* the part of C3 that src/unnamed/part_001 does guarantee: a session whose
\* mustChangePassword is set gets /dashboard and /admin redirected
PagesTurnedPart001 ==
    \A c \in LoggedIn :
        (variant = "part_001" /\ session[c].mustChangePassword) =>
            \A p \in {"/dashboard", "/admin"} : Turned(getPage(variant, DB, session[c], p))

----------------------------------------------------------------------------
(* C4 *)

\* the records a browser's user owns, as pairs of kind and id
OwnRecords(c) ==
    UNION { {<<k, p.id>> : p \in SelectParents(DB, k, session[c].userId)} :
              k \in Kinds }

\* C4, as the specification states it: after a successful update of a
\* creditor or debtor by its owner with item list L, the stored items are
\* exactly the items of L: as many, in the same order, each with the reason,
\* the amount and the status submitted, a missing amount stored as 0 and a
\* missing status as pending.
UpdateStoresExactlyL ==
    \A c \in LoggedIn : \A o \in OwnRecords(c) : \A b \in Bodies : \A L \in ItemLists :
        LET r == putRecord(variant, DB, session[c], o[1], o[2], b, L)
            st == StoredItems(r.db, o[1], o[2])
        IN r.status = 200 =>
             /\ Len(st) = Len(L)
             /\ \A n \in 1..Len(L) :
                  /\ "reason" \in DOMAIN L[n] => st[n].reason = L[n].reason
                  /\ parseFloat(st[n].amount) = NumOr(L[n], "amount", 0)
                  /\ st[n].status = StrOr(L[n], "status", "pending")

\* C4, amended: the same, but each amount is stored rounded to two decimals
\* (half away from zero), and a missing reason is stored as the empty string.
UpdateStoresRoundedL ==
    \A c \in LoggedIn : \A o \in OwnRecords(c) : \A b \in Bodies : \A L \in ItemLists :
        LET r == putRecord(variant, DB, session[c], o[1], o[2], b, L)
            st == StoredItems(r.db, o[1], o[2])
        IN r.status = 200 =>
             /\ Len(st) = Len(L)
             /\ \A n \in 1..Len(L) :
                  /\ st[n].reason = StrOr(L[n], "reason", "")
                  /\ st[n].amount = Numeric152(NumOr(L[n], "amount", 0))
                  /\ st[n].status = StrOr(L[n], "status", "pending")
             /\ \A i \in r.db.items[o[1]] :
                  i.parent_id = o[2] => i \notin DB.items[o[1]]

\* an owner has updated a record that has items now and had other items before
UpdateStoresRoundedLWitness ==
    /\ exchange.method = "PUT"
    /\ exchange.status = 200
    /\ \E k \in Kinds :
         /\ exchange.route = RecordRoute(k)
         /\ <<k, exchange.id>> \in OwnRecords(exchange.client)
         /\ StoredItems(DB, k, exchange.id) # << >>
         /\ seq[ItemTable(k)] - 1 > Cardinality(items[k])

----------------------------------------------------------------------------
(* C5 *)

\* C5: in both variants, PUT /api/creditors/:id and PUT /api/debtors/:id with
\* an id that does not exist or is not the caller's, and DELETE
\* /api/payments/:id with an id that is not the caller's, answer 404 and
\* change no parent, item or payment row.
NotOwnedIsNotFound ==
    \A c \in LoggedIn :
        LET u == session[c].userId
        IN /\ \A k \in Kinds : \A id \in 1..MaxRows : \A b \in Bodies : \A L \in ItemLists :
                LET r == putRecord(variant, DB, session[c], k, id, b, L)
                IN SelectOwned(DB, k, id, u) = {} =>
                      r.status = 404 /\ Rows(r.db) = Rows(DB)
           /\ \A id \in 1..MaxRows :
                LET r == deletePayment(variant, DB, session[c], id)
                IN (\E p \in payments : p.id = id /\ p.user_id # u) =>
                      r.status = 404 /\ Rows(r.db) = Rows(DB)

\* what src/server.js alone guarantees
NotOwnedIsNotFoundServer == (variant = "server.js") => NotOwnedIsNotFound

----------------------------------------------------------------------------
(* C6 *)

\* C6: in both variants, DELETE /api/creditors/:id and DELETE /api/debtors/:id
\* with an id that is not the caller's answers 200 or 404, and the record of
\* that id and all of its items are stored unchanged afterwards.
DeleteNotOwnedKeepsTarget ==
    \A c \in LoggedIn : \A k \in Kinds : \A id \in 1..MaxRows :
        LET r == deleteRecord(variant, DB, session[c], k, id)
        IN SelectOwned(DB, k, id, session[c].userId) = {} =>
              /\ r.status \in {200, 404}
              /\ {p \in r.db.parents[k] : p.id = id} = {p \in parents[k] : p.id = id}
              /\ {i \in r.db.items[k] : i.parent_id = id}
                    = {i \in items[k] : i.parent_id = id}

\* what src/server.js alone guarantees
DeleteNotOwnedKeepsTargetServer == (variant = "server.js") => DeleteNotOwnedKeepsTarget

----------------------------------------------------------------------------
(* C7 *)

\* C7: a successful DELETE of a creditor or debtor by its owner leaves no
\* item row with that parent id and the record in no listing; and that still
\* holds after every later request.
DeletedStaysGone ==
    /\ \A c \in LoggedIn : \A o \in OwnRecords(c) :
          LET r == deleteRecord(variant, DB, session[c], o[1], o[2])
          IN r.status = 200 =>
                /\ \A i \in r.db.items[o[1]] : i.parent_id # o[2]
                /\ \A arr \in ListRecords(r.db, o[1], session[c].userId) :
                      \A n \in 1..Len(arr) : arr[n].id # o[2]
    /\ \A o \in deleted :
          /\ \A i \in items[o[1]] : i.parent_id # o[2]
          /\ \A c \in LoggedIn : \A arr \in ListRecords(DB, o[1], session[c].userId) :
                \A n \in 1..Len(arr) : arr[n].id # o[2]

\* an owner has deleted a record, items had been stored under it, and a
\* listing has been answered since
DeletedStaysGoneWitness ==
    /\ exchange.method = "GET"
    /\ exchange.status = 200
    /\ \E o \in deleted :
         /\ exchange.route = RecordsRoute(o[1])
         /\ <<o[1], o[2], session[exchange.client].userId>> \in creator
         /\ seq[ItemTable(o[1])] > 1
         /\ items[o[1]] = {}

----------------------------------------------------------------------------
(* C8 *)

\* C8: in every record of a creditor or debtor listing, total_amount is the
\* sum of the amounts of the items of that record; 0 when it has none.
TotalIsSumOfItems ==
    \A c \in LoggedIn : \A k \in Kinds :
        \A arr \in ListRecords(DB, k, session[c].userId) : \A n \in 1..Len(arr) :
            /\ arr[n].total_amount = AmountsAt(arr[n].items, DOMAIN arr[n].items)
            /\ arr[n].items = << >> => arr[n].total_amount = 0

\* a listing has been answered that holds a record with two items, one of
\* them not pending, and a record without items
TotalIsSumOfItemsWitness ==
    /\ exchange.method = "GET"
    /\ exchange.status = 200
    /\ \E k \in Kinds :
         /\ exchange.route = RecordsRoute(k)
         /\ \E arr \in ListRecords(DB, k, session[exchange.client].userId) :
              /\ \E n \in 1..Len(arr) :
                   /\ Len(arr[n].items) = 2
                   /\ arr[n].total_amount # 0
                   /\ \E j \in 1..2 : arr[n].items[j].status # "pending"
              /\ \E n \in 1..Len(arr) : arr[n].items = << >>

----------------------------------------------------------------------------
(* C9 *)

\* C9: in every record of a creditor or debtor listing, pending_amount is the
\* sum of the amounts of the items whose status is pending, and of no other;
\* when no amount is negative, pending_amount <= total_amount.
PendingIsSumOfPending ==
    \A c \in LoggedIn : \A k \in Kinds :
        \A arr \in ListRecords(DB, k, session[c].userId) : \A n \in 1..Len(arr) :
            LET its == arr[n].items
            IN /\ arr[n].pending_amount =
                    AmountsAt(its, {j \in DOMAIN its : its[j].status = "pending"})
               /\ (\A j \in DOMAIN its : its[j].amount >= 0) =>
                    arr[n].pending_amount <= arr[n].total_amount

\* a listing has been answered that holds a record with a paid item of a
\* positive amount
PendingIsSumOfPendingWitness ==
    /\ exchange.method = "GET"
    /\ exchange.status = 200
    /\ \E k \in Kinds :
         /\ exchange.route = RecordsRoute(k)
         /\ \E arr \in ListRecords(DB, k, session[exchange.client].userId) :
              \E n \in 1..Len(arr) : \E j \in DOMAIN arr[n].items :
                  /\ arr[n].items[j].status = "paid"
                  /\ arr[n].items[j].amount > 0
                  /\ arr[n].pending_amount < arr[n].total_amount

----------------------------------------------------------------------------
(* C10 *)

\* C10: in every answer of GET /api/dashboard/stats, net_position is
\* total_owed_by_debtors minus total_owed_to_creditors, and it is negative
\* whenever the pending items of the user's creditors sum to more than the
\* pending items of the user's debtors.
NetPositionIsDifference ==
    \A c \in LoggedIn :
        LET u == session[c].userId
            st == DashboardStats(DB, u)
            pending(k) == LET S == {i \in OwnedBy(DB, u).items[k] : i.status = "pending"}
                          IN SumSet(S)
        IN /\ st.net_position = st.total_owed_by_debtors - st.total_owed_to_creditors
           /\ pending("creditors") > pending("debtors") => st.net_position < 0

\* the statistics have been answered to a user whose creditors' pending items
\* sum to more than the debtors'
NetPositionIsDifferenceWitness ==
    /\ exchange.method = "GET"
    /\ exchange.route = "/api/dashboard/stats"
    /\ exchange.status = 200
    /\ LET st == DashboardStats(DB, session[exchange.client].userId)
       IN /\ st.total_owed_to_creditors > st.total_owed_by_debtors
          /\ st.net_position < 0

----------------------------------------------------------------------------
(* C11 *)

\* the amounts of the pending items stored under the parents of a set, summed
\* parent by parent
RECURSIVE PendingUnder(_, _, _)
PendingUnder(d, k, P) ==
    IF P = {} THEN 0
    ELSE LET p == CHOOSE x \in P : TRUE
             its == StoredItems(d, k, p.id)
         IN AmountsAt(its, {j \in 1..Len(its) : its[j].status = "pending"})
              + PendingUnder(d, k, P \ {p})

\* the sum, as the browser reads it, of the pending items of the creditors
\* (debtors) of a user
PendingOfUser(d, k, uid) ==
    parseFloat(PendingUnder(d, k, {p \in d.parents[k] : p.user_id = uid}))

\* the scenario's request: one debtor with a single pending item of 5000
ScenarioItems == <<[reason |-> "loan", amount |-> 5000 * 1000, status |-> "pending"]>>

----------------------------------------------------------------------------
(* C12 *)

\* bodies whose new password is missing, empty or shorter than 5 characters,
\* with every current password, given or not
ShortPasswordBodies ==
    LET short == {"", "a", "abcd"}
    IN {[currentPassword |-> p, newPassword |-> n] : p \in Passwords, n \in short}
         \cup {[newPassword |-> n] : n \in short}
         \cup {[currentPassword |-> p] : p \in Passwords}
         \cup {[x \in {} |-> 0]}

\* C12: PUT /api/auth/password and PUT /api/auth/force-password-change reject
\* a new password that is missing or shorter than 5 characters, whatever the
\* other inputs are (400 to a logged-in browser, 401 to any other), and the
\* rejection leaves every user's stored password hash and must_change_password
\* as they were.
ShortPasswordRejected ==
    \A c \in Clients : \A b \in ShortPasswordBodies :
        \A r \in {putPassword(variant, DB, session[c], b),
                  forcePasswordChange(variant, DB, session[c], b)} :
            /\ r.status = IF c \in LoggedIn THEN 400 ELSE 401
            /\ r.db.users = DB.users
            /\ r.session = session[c]

\* a logged-in user whose password must change has been refused a too short
\* new password, and still has the default password and the flag
ShortPasswordRejectedWitness ==
    /\ exchange.method = "PUT"
    /\ exchange.route = "/api/auth/force-password-change"
    /\ exchange.status = 400
    /\ exchange.client \in LoggedIn
    /\ \E u \in UserById(DB, session[exchange.client].userId) :
          /\ bcryptCompare("12345", u.password_hash)
          /\ u.must_change_password

----------------------------------------------------------------------------
(* C13 *)

\* every new password a body may carry, acceptable or not, or none
AnyPasswordBodies ==
    {[currentPassword |-> p, newPassword |-> n] :
        p \in Passwords \cup {"guess"}, n \in Passwords \cup {"abcd"}}
      \cup {[currentPassword |-> p] : p \in Passwords \cup {"guess"}}

\* C13: PUT /api/auth/password with a currentPassword that does not verify
\* against the stored hash of the session's user is refused (400, 'Current
\* password is incorrect' unless the new password is refused first) and leaves
\* the database, with the user's hash and must_change_password, and the
\* session as they were, so that the old password still logs in.
WrongCurrentPasswordRefused ==
    \A c \in LoggedIn : \A u \in UserById(DB, session[c].userId) :
        \A b \in {x \in AnyPasswordBodies : u.password_hash # bcryptHash(x.currentPassword)} :
            LET r == putPassword(variant, DB, session[c], b)
            IN /\ r.status = 400
               /\ r.db = DB
               /\ r.session = session[c]
               /\ \A old \in {p \in Passwords : u.password_hash = bcryptHash(p)} :
                    \A a \in login(variant, r.db, NoSession,
                                   [username |-> u.username, password |-> old]) :
                        /\ a.status = 200
                        /\ a.session.userId = u.id

\* a user who had changed the password to s3cret has been refused a change
\* that named another current password, and s3cret is still the password
WrongCurrentPasswordRefusedWitness ==
    /\ exchange.method = "PUT"
    /\ exchange.route = "/api/auth/password"
    /\ exchange.status = 400
    /\ exchange.client \in LoggedIn
    /\ \E u \in UserById(DB, session[exchange.client].userId) :
          /\ u.password_hash = bcryptHash("s3cret")
          /\ ~u.must_change_password

----------------------------------------------------------------------------
(* C14 *)

\* a request as the claims about users see it: its route, the :id it names,
\* the status answered, and the database and session it leaves
Outcome(route, id, r) ==
    [route |-> route, id |-> id, status |-> r.status, db |-> r.db, session |-> r.session]

\* every request a browser may send now to the routes that write the users
\* table or the session, whatever body and :id it carries
UserRequests(c) ==
    LET s == session[c]
    IN UNION {{Outcome("login", 0, r) : r \in login(variant, DB, s, b)} : b \in LoginBodies}
       \cup {Outcome("logout", 0, logout(DB, s))}
       \cup {Outcome("profile", 0, putProfile(DB, s, b)) : b \in ProfileBodies}
       \cup {Outcome("password", 0, putPassword(variant, DB, s, b)) : b \in PasswordBodies}
       \cup {Outcome("force-password-change", 0, forcePasswordChange(variant, DB, s, b)) :
                b \in PasswordBodies}
       \cup {Outcome("users", 0, createUser(variant, DB, s, b)) : b \in NewUserBodies}
       \cup {Outcome("users/:id", id, updateUser(variant, DB, s, id, b)) :
                id \in UserIds, b \in UpdateUserBodies}
       \cup {Outcome("reset-password", id, resetPassword(variant, DB, s, id, b)) :
                id \in UserIds, b \in ResetBodies}
       \cup {Outcome("delete", id, deleteUser(DB, s, id)) : id \in UserIds}

\* the user's row, if it is still there, does not ask for a password change
FlagClear(d, uid) == \A u \in UserById(d, uid) : ~u.must_change_password

\* a successful password change leaves the user's flag false
ChangeClearsFlag ==
    \A c \in LoggedIn : \A b \in PasswordBodies :
        \A r \in {putPassword(variant, DB, session[c], b),
                  forcePasswordChange(variant, DB, session[c], b)} :
            r.status = 200 => FlagClear(r.db, session[c].userId)

\* no request but an admin's reset of that user's password raises a flag that
\* is false
OnlyResetRaisesFlag ==
    \A u \in {x \in DB.users : ~x.must_change_password} :
        \A c \in Clients : \A o \in UserRequests(c) :
            ~(o.route = "reset-password" /\ o.id = u.id /\ o.status = 200)
                => FlagClear(o.db, u.id)

\* a login of a user whose flag is false says so, and sends the browser
\* elsewhere than to /change-password
LoginReportsClearFlag ==
    \A c \in Clients : \A b \in LoginBodies :
        \A r \in login(variant, DB, session[c], b) :
            (r.status = 200 /\ FlagClear(DB, r.session.userId))
                => /\ ~r.reply.must_change_password
                   /\ "redirect" \in DOMAIN r.reply => r.reply.redirect # "/change-password"

\* C14 as stated: after a successful change of password (PUT /api/auth/password
\* with the correct current password, or PUT /api/auth/force-password-change)
\* the user's stored must_change_password is false and stays false until an
\* admin resets that user's password, a start of the server included; every
\* login of the user in between answers must_change_password = false and a
\* redirect other than /change-password.
FlagStaysClearUntilReset ==
    /\ ChangeClearsFlag
    /\ OnlyResetRaisesFlag
    /\ LoginReportsClearFlag
    /\ \A u \in {x \in DB.users : ~x.must_change_password} :
          FlagClear(initDB(variant, DB).db, u.id)

\* C14, amended: as above, but in src/unnamed/part_001 a start of the server
\* raises the flag of the user named admin again while that user's password is
\* 12345.
FlagStaysClearUntilResetOrDefault ==
    /\ ChangeClearsFlag
    /\ OnlyResetRaisesFlag
    /\ LoginReportsClearFlag
    /\ \A u \in {x \in DB.users : ~x.must_change_password} :
          \/ FlagClear(initDB(variant, DB).db, u.id)
          \/ /\ variant = "part_001"
             /\ u.username = "admin"
             /\ u.password_hash = bcryptHash("12345")

\* a user has changed the password to s3cret, the flag is false, and a login
\* with the new password is answered must_change_password = false
FlagStaysClearWitness ==
    /\ exchange.method = "PUT"
    /\ exchange.route = "/api/auth/password"
    /\ exchange.status = 200
    /\ exchange.client \in LoggedIn
    /\ \E u \in UserById(DB, session[exchange.client].userId) :
          /\ u.password_hash = bcryptHash("s3cret")
          /\ ~u.must_change_password
          /\ \E r \in login(variant, DB, NoSession,
                            [username |-> u.username, password |-> "s3cret"]) :
                r.status = 200 /\ ~r.reply.must_change_password

----------------------------------------------------------------------------
(* C15 *)

\* what the claim says of a user whose password an admin's request r has
\* reset: the stored flag is true, and a successful login answers
\* must_change_password = true with the redirect /change-password, after which
\* the /dashboard and /admin pages lead to /change-password
ForcedThroughChange(r, id) ==
    \A u \in UserById(r.db, id) :
        /\ u.must_change_password
        /\ \A pw \in Passwords :
             \A a \in login(variant, r.db, NoSession,
                            [username |-> u.username, password |-> pw]) :
                a.status = 200
                  => /\ a.reply.must_change_password
                     /\ "redirect" \in DOMAIN a.reply
                     /\ a.reply.redirect = "/change-password"
                     /\ \A page \in {"/dashboard", "/admin"} :
                          Landing(variant, a.db, a.session, page) = "/change-password"

\* C15: after an admin resets a user's password, the user's stored
\* must_change_password is true, and the user's next successful login reports
\* must_change_password = true and sends them to the change-password flow: the
\* redirect is /change-password, and the /dashboard and /admin pages redirect
\* to /change-password.
ResetForcesChangeFlow ==
    \A c \in Clients : \A id \in UserIds : \A b \in ResetBodies :
        LET r == resetPassword(variant, DB, session[c], id, b)
        IN r.status = 200 => ForcedThroughChange(r, id)

\* the same of src/unnamed/part_001 alone
ResetForcesChangeFlowPart001 == variant = "part_001" => ResetForcesChangeFlow

----------------------------------------------------------------------------
(* C16 *)

\* the answers to every request a browser may send now to the protected
\* profile and password routes
ProfileResults(c) ==
    LET s == session[c]
    IN {getProfile(variant, DB, s)}
       \cup {putProfile(DB, s, b) : b \in ProfileBodies}
       \cup {putPassword(variant, DB, s, b) : b \in PasswordBodies \cup AnyPasswordBodies}
       \cup {forcePasswordChange(variant, DB, s, b) : b \in PasswordBodies \cup AnyPasswordBodies}

\* C16: a request of a browser without an authenticated session (it never
\* logged in, or its session was destroyed by logout) to a protected route
\* (profile, password, creditors, debtors, payments, dashboard statistics) is
\* answered 401 and leaves every stored row as it was.
UnauthenticatedIsUnauthorized ==
    \A c \in Clients \ LoggedIn :
        /\ \A r \in ProfileResults(c) \cup WriteResults(c) :
              r.status = 401 /\ r.db = DB
        /\ \A k \in Kinds : getRecords(DB, session[c], k).status = 401
        /\ getPayments(DB, session[c]).status = 401
        /\ getStats(DB, session[c]).status = 401

\* a browser that logged out, its user's row still stored, has asked for the
\* profile and has been answered 401
UnauthenticatedIsUnauthorizedWitness ==
    /\ exchange.method = "GET"
    /\ exchange.route = "/api/auth/profile"
    /\ exchange.status = 401
    /\ session[exchange.client] = NoSession
    /\ \E u \in DB.users : u.last_login > 0

----------------------------------------------------------------------------
(* C17 *)

\* of an answer, the status and the users table it leaves
OnUsers(r) == [status |-> r.status, users |-> r.db.users]

\* the answers to every request a browser may send now to the /api/admin routes
AdminResults(c) ==
    LET s == session[c]
    IN {OnUsers(getUsers(DB, s))}
       \cup {OnUsers(createUser(variant, DB, s, b)) : b \in NewUserBodies}
       \cup {OnUsers(updateUser(variant, DB, s, id, b)) :
                id \in UserIds, b \in UpdateUserBodies}
       \cup {OnUsers(resetPassword(variant, DB, s, id, b)) :
                id \in UserIds, b \in ResetBodies}
       \cup {OnUsers(deleteUser(DB, s, id)) : id \in UserIds}

\* the browsers whose session belongs to a stored user with is_admin = TRUE
AdminUsers ==
    {c \in LoggedIn : \E u \in UserById(DB, session[c].userId) : u.is_admin}

\* C17: a request to an /api/admin route from a session whose user is not an
\* admin is answered 403 and creates, updates, resets or deletes no user row.
NonAdminIsForbidden ==
    \A c \in Clients \ AdminUsers : \A r \in AdminResults(c) :
        r.status = 403 /\ r.users = DB.users

\* the same of the sessions that hold no isAdmin = TRUE, the value copied from
\* the user's row at login
NonAdminSessionIsForbidden ==
    \A c \in {x \in Clients : ~requireAdmin(session[x])} : \A r \in AdminResults(c) :
        r.status = 403 /\ r.users = DB.users

----------------------------------------------------------------------------
(* C18 *)

\* a create-user request whose username is the e-mail address of the admin
ClashBody ==
    [username |-> "admin@ghouenzen.com", email |-> "Bob@X.org",
     password |-> "s3cret", full_name |-> "Bob"]

\* the database as it is, and as one more create-user request may leave it
Stores == {DB} \cup {createUser(variant, DB, session[c], ClashBody).db : c \in Clients}

\* the identifiers and passwords a login may carry, both given
Credentials ==
    {[username |-> n, password |-> p] :
        n \in {"Admin", "bob", "Bob@X.org", "admin@ghouenzen.com", "carol"},
        p \in Passwords \cup {"guess"}}

\* the users whose username or e-mail address is the identifier, ignoring case
Named(d, name) ==
    {u \in d.users : Lower(u.username) = Lower(name) \/ Lower(u.email) = Lower(name)}

\* what the claim says of the login of browser c on database d
LoginExact(d, c, b) ==
    LET right == {u \in Named(d, b.username) : u.password_hash = bcryptHash(b.password)}
    IN \A r \in login(variant, d, session[c], b) :
          /\ r.status = 200 <=> right # {}
          /\ r.status # 200
               => r.status = 401 /\ r.session = session[c] /\ r.db = d
          /\ r.status = 200
               => \E u \in right :
                     /\ r.session.userId = u.id
                     /\ r.db.users = (d.users \ {u})
                                       \cup {[u EXCEPT !.last_login = u.last_login + 1]}

\* C18: login(identifier, password) succeeds exactly when some user's username
\* or e-mail address equals the identifier ignoring case and the password
\* verifies against that user's hash; a failure is answered 401, issues no
\* session and writes no last_login; on success the session's userId is the id
\* of that user and that user's last_login is updated.
LoginExactlyWhenRight ==
    \A d \in Stores : \A c \in Clients : \A b \in Credentials : LoginExact(d, c, b)

\* the same where the identifier names at most one user
LoginExactWhenOneNamed ==
    \A d \in Stores : \A c \in Clients :
        \A b \in {x \in Credentials : Cardinality(Named(d, x.username)) <= 1} :
            LoginExact(d, c, b)

----------------------------------------------------------------------------
(* C19 *)

\* GET /api/auth/status on session s answers mustChangePassword = true
StatusFlag(d, s) ==
    LET st == getStatus(variant, d, s).reply
    IN st.authenticated /\ st.mustChangePassword

\* right after a successful change of password, the status of the session that
\* made it answers mustChangePassword = false
ChangeSeenOnOwnSession ==
    \A c \in LoggedIn : \A b \in PasswordBodies :
        \A r \in {putPassword(variant, DB, session[c], b),
                  forcePasswordChange(variant, DB, session[c], b)} :
            r.status = 200 => ~StatusFlag(r.db, r.session)

\* a session whose status answers mustChangePassword = false (in a run from
\* startup, a session whose user has changed the password) keeps that answer
\* whatever request comes next, a start of the server included, but for a new
\* login on the session and for the requests in Except
StatusStaysClear(Except(_, _)) ==
    \A c \in {x \in LoggedIn : ~StatusFlag(DB, session[x])} :
        /\ ~StatusFlag(initDB(variant, DB).db, session[c])
        /\ \A c2 \in Clients : \A o \in UserRequests(c2) :
              (~(c2 = c /\ o.route = "login") /\ ~Except(c, o))
                  => ~StatusFlag(o.db, IF c2 = c THEN o.session ELSE session[c])

\* a session's user logs in on another browser too and changes the password
\* there: the status of the first session answers mustChangePassword = false
ChangeSeenOnOtherSession ==
    \A c \in LoggedIn : \A c2 \in Clients \ {c} : \A u \in UserById(DB, session[c].userId) :
        \A pw \in Passwords : \A b \in PasswordBodies :
            \A a \in login(variant, DB, session[c2], [username |-> u.username, password |-> pw]) :
                a.status = 200
                  => \A r \in {putPassword(variant, a.db, a.session, b),
                               forcePasswordChange(variant, a.db, a.session, b)} :
                        r.status = 200 => ~StatusFlag(r.db, session[c])

NoRequest(c, o) == FALSE

\* an admin's successful reset of the password of the session's user
ResetOfUser(c, o) ==
    o.route = "reset-password" /\ o.id = session[c].userId /\ o.status = 200

\* C19 as stated: in both variants, after the session's own user changes the
\* password (PUT /api/auth/password or /api/auth/force-password-change, on
\* this session or on another of the same user), every later GET
\* /api/auth/status on the session answers mustChangePassword = false.
StatusNeverStale ==
    /\ ChangeSeenOnOwnSession
    /\ StatusStaysClear(NoRequest)
    /\ ChangeSeenOnOtherSession

\* C19, amended: the session that made the change is answered
\* mustChangePassword = false from then on, until an admin resets the user's
\* password or the session logs in again; a change made on another session of
\* the same user is seen by src/server.js, which reads the flag from the store.
StatusClearAfterOwnChange ==
    /\ ChangeSeenOnOwnSession
    /\ StatusStaysClear(ResetOfUser)
    /\ variant = "server.js" => ChangeSeenOnOtherSession

\* a user has changed the password to s3cret and has then asked for the
\* status, which answers mustChangePassword = false
StatusClearAfterOwnChangeWitness ==
    /\ exchange.method = "GET"
    /\ exchange.route = "/api/auth/status"
    /\ exchange.client \in LoggedIn
    /\ ~StatusFlag(DB, session[exchange.client])
    /\ \E u \in UserById(DB, session[exchange.client].userId) :
          u.password_hash = bcryptHash("s3cret") /\ ~u.must_change_password

----------------------------------------------------------------------------
(* C20 *)

\* the admin accounts of a database
Admins(d) == {u \in d.users : u.is_admin}

\* the accounts a startup adds that are admin accounts with the default
\* password and must_change_password = true
DefaultAdminsAdded(d, after) ==
    {u \in after.users \ d.users :
        u.is_admin /\ u.password_hash = bcryptHash("12345") /\ u.must_change_password}

\* C20: whenever initDB runs on a store without an admin account (no user with
\* is_admin = true) it creates one with the default password and
\* must_change_password = true, so that after every successful startup there
\* is an admin account; when there is an admin account already it creates no
\* account.
StartupEnsuresAdmin ==
    LET r == initDB(variant, DB)
    IN r.ok => /\ Admins(DB) = {} => DefaultAdminsAdded(DB, r.db) # {}
               /\ Admins(r.db) # {}
               /\ Admins(DB) # {} => Cardinality(r.db.users) = Cardinality(DB.users)

\* what the code keys on: the username admin, not is_admin
StartupEnsuresUserNamedAdmin ==
    LET r == initDB(variant, DB)
        named == {u \in DB.users : u.username = "admin"}
    IN r.ok => /\ named = {} => Cardinality(DefaultAdminsAdded(DB, r.db)) = 1
               /\ \E u \in r.db.users : u.username = "admin"
               /\ named # {} => Cardinality(r.db.users) = Cardinality(DB.users)

----------------------------------------------------------------------------
(* C21 *)

\* create-user bodies that also carry a must_change_password and an is_admin
\* of their own
FlagBodies ==
    NewUserBodies
      \cup {[username |-> "Bob", email |-> "Bob@X.org", password |-> "s3cret",
             full_name |-> "Bob", must_change_password |-> FALSE, is_admin |-> a] :
               a \in BOOLEAN}

\* every account the create-user route stores starts with the flag
CreatedWithFlag ==
    \A c \in Clients : \A b \in FlagBodies :
        LET r == createUser(variant, DB, session[c], b)
        IN \A u \in r.db.users \ DB.users : u.must_change_password

\* the flag of a stored user goes from true to false only by a successful
\* change of password on a session of that user
FlagKeptUntilOwnChange ==
    \A u \in {x \in DB.users : x.must_change_password} :
        /\ ~FlagClear(initDB(variant, DB).db, u.id) \/ UserById(initDB(variant, DB).db, u.id) = {}
        /\ \A c \in Clients : \A o \in UserRequests(c) :
              (\E x \in UserById(o.db, u.id) : ~x.must_change_password)
                  => /\ o.route \in {"password", "force-password-change"}
                     /\ o.status = 200
                     /\ c \in LoggedIn
                     /\ session[c].userId = u.id

\* C21: every account created through POST /api/admin/users is stored with
\* must_change_password = true, whatever the body contains, and keeps that
\* value until that user completes a change of password.
CreatedMustChange == CreatedWithFlag /\ FlagKeptUntilOwnChange

\* the admin has created a second account, which is stored with the flag
CreatedMustChangeWitness ==
    /\ exchange.method = "POST"
    /\ exchange.route = "/api/admin/users"
    /\ exchange.status = 200
    /\ \E u \in DB.users : u.id > 1 /\ u.must_change_password /\ u.last_login = 0

----------------------------------------------------------------------------
(* C22 *)

\* a name with its letters in lower case, on the names the requests below use
Fold(n) ==
    CASE n \in {"Admin", "ADMIN"} -> "admin"
      [] n \in {"Bob", "BOB"} -> "bob"
      [] n = "Bob@X.org" -> "bob@x.org"
      [] n = "Admin@Ghouenzen.com" -> "admin@ghouenzen.com"
      [] OTHER -> n

\* no two users of a table have usernames, or e-mail addresses, that are equal
\* ignoring case
UniqueIgnoringCase(U) ==
    \A u1 \in U : \A u2 \in U \ {u1} :
        /\ u1.id # u2.id
        /\ Fold(u1.username) # Fold(u2.username)
        /\ Fold(u1.email) # Fold(u2.email)

\* create-user bodies whose username or e-mail address may be taken
TakenBodies ==
    {[username |-> n, email |-> e, password |-> "s3cret", full_name |-> "Carol"] :
        n \in {"Admin", "admin", "Bob", "bob", "carol"},
        e \in {"Bob@X.org", "bob@x.org", "admin@ghouenzen.com", "carol@x.org"}}

\* update-user bodies whose e-mail address may be taken
TakenEmails ==
    {[full_name |-> "Carol", email |-> e, is_admin |-> TRUE] :
        e \in {"Bob@X.org", "bob@x.org", "admin@ghouenzen.com", "carol@x.org"}}

\* C22: after bootstrap and any sequence of create-user and update-user
\* requests (and the other requests), no two stored users have usernames that
\* are equal ignoring case or e-mail addresses that are equal ignoring case; a
\* create or update that would produce such a duplicate is refused and leaves
\* the users table as it was.
UsersUniqueIgnoringCase ==
    /\ UniqueIgnoringCase(DB.users)
    /\ UniqueIgnoringCase(initDB(variant, DB).db.users)
    /\ \A c \in Clients :
         /\ \A b \in TakenBodies \cup NewUserBodies :
              LET r == createUser(variant, DB, session[c], b)
              IN /\ UniqueIgnoringCase(r.db.users)
                 /\ ("username" \in DOMAIN b /\ "email" \in DOMAIN b
                       /\ \E u \in DB.users : \/ Fold(u.username) = Fold(b.username)
                                              \/ Fold(u.email) = Fold(b.email))
                      => r.status # 200 /\ r.db.users = DB.users
         /\ \A id \in UserIds : \A b \in TakenEmails \cup UpdateUserBodies :
              LET r == updateUser(variant, DB, session[c], id, b)
              IN /\ UniqueIgnoringCase(r.db.users)
                 /\ ("email" \in DOMAIN b /\ UserById(DB, id) # {}
                       /\ \E u \in DB.users : u.id # id /\ Fold(u.email) = Fold(b.email))
                      => r.status # 200 /\ r.db.users = DB.users

\* the admin, with a second user stored, has been refused a request that would
\* have made a duplicate
UsersUniqueIgnoringCaseWitness ==
    /\ exchange.route \in {"/api/admin/users", "/api/admin/users/:id"}
    /\ exchange.method \in {"POST", "PUT"}
    /\ exchange.status \in {400, 500}
    /\ Cardinality(DB.users) = 2
    /\ requireAdmin(session[exchange.client])

----------------------------------------------------------------------------
(* C23 *)

\* payments of either type, with and without a related id, of amounts with
\* two and with three decimals, positive and negative
AnyPaymentBodies ==
    {[type |-> t, amount |-> a] : t \in {"paid", "received"}, a \in {1000, 2505, -1000}}
      \cup {[type |-> t, amount |-> a, related_id |-> 1] :
              t \in {"paid", "received"}, a \in {1000, 2505, -1000}}

\* what the user sees of the creditors and debtors: the listings with their
\* total_amount and pending_amount, and the dashboard statistics
Seen(d, uid) ==
    <<[k \in Kinds |-> ListRecords(d, k, uid)], DashboardStats(d, uid)>>

\* a payment request leaves every creditor, debtor and item row, and what the
\* user sees of them, as they were
PaymentsLeaveRecords ==
    \A c \in LoggedIn :
        \A r \in {postPayment(variant, DB, session[c], b) : b \in AnyPaymentBodies}
                    \cup {deletePayment(variant, DB, session[c], id) : id \in 1..MaxRows} :
            /\ r.db.parents = DB.parents
            /\ r.db.items = DB.items
            /\ Seen(r.db, session[c].userId) = Seen(DB, session[c].userId)

\* the payments a request has added
Added(r) == r.db.payments \ DB.payments

\* C23 as stated: recordPayment and deletePayment, of either type and with or
\* without a related id, leave every creditor, debtor and item row unchanged,
\* and total_amount, pending_amount and the dashboard totals are the same
\* before and after; the amount of the payment is stored as given, with no
\* sign inversion.
PaymentStoredAsGiven ==
    /\ PaymentsLeaveRecords
    /\ \A c \in LoggedIn : \A b \in AnyPaymentBodies :
          LET r == postPayment(variant, DB, session[c], b)
          IN r.status = 200
               => /\ Cardinality(Added(r)) = 1
                  /\ \A p \in Added(r) : parseFloat(p.amount) = b.amount /\ p.type = b.type

\* C23, amended: the same, the amount being stored rounded to two decimals,
\* the scale of the DECIMAL(15,2) column: the nearest hundredth, of the sign
\* given.
PaymentStoredRounded ==
    /\ PaymentsLeaveRecords
    /\ \A c \in LoggedIn : \A b \in AnyPaymentBodies :
          LET r == postPayment(variant, DB, session[c], b)
          IN r.status = 200
               => /\ Cardinality(Added(r)) = 1
                  /\ \A p \in Added(r) :
                       /\ Abs(parseFloat(p.amount) - b.amount) <= 5
                       /\ (b.amount > 0 => p.amount > 0) /\ (b.amount < 0 => p.amount < 0)
                       /\ p.type = b.type

\* a payment of type paid has been recorded for a user who has a pending item,
\* which is pending still
PaymentStoredRoundedWitness ==
    /\ exchange.method = "POST"
    /\ exchange.route = "/api/payments"
    /\ exchange.status = 200
    /\ LET u == session[exchange.client].userId
       IN /\ \E p \in DB.payments : p.user_id = u /\ p.type = "paid" /\ p.amount > 0
          /\ \E i \in OwnedBy(DB, u).items["creditors"] \cup OwnedBy(DB, u).items["debtors"] :
                i.status = "pending"

----------------------------------------------------------------------------
(* C24 *)

\* the records a user's listings hold, each also as it would be with every
\* other gender and language, a missing language included
StatementRecords(c) ==
    UNION { UNION { { [k |-> k, rec |-> [list[n] EXCEPT !.gender = g, !.language = l]] :
                        n \in 1..Len(list), g \in {"male", "female"},
                        l \in {"english", "french", ""} } :
                    list \in ListRecords(DB, k, session[c].userId) } :
            k \in Kinds }

\* the statement of a record of a listing
StatementOf(x) ==
    IF x.k = "creditors" THEN generateCreditorStatement(x.rec)
    ELSE generateDebtorStatement(x.rec)

\* the title and the template the claim gives for a record
TitleAndTemplate(x, st) ==
    LET french == x.rec.language = "french"
    IN /\ st.title = CASE x.rec.gender = "male" /\ ~french -> "Mr."
                       [] x.rec.gender = "male" /\ french -> "M."
                       [] x.rec.gender = "female" /\ ~french -> "Mrs."
                       [] x.rec.gender = "female" /\ french -> "Mme"
       /\ st.letterhead =
            CASE x.k = "creditors" /\ ~french -> "DEBT CONFIRMATION STATEMENT"
              [] x.k = "creditors" /\ french -> "RELEVE DE CONFIRMATION DE DETTE"
              [] x.k = "debtors" /\ ~french -> "OUTSTANDING DEBT STATEMENT"
              [] x.k = "debtors" /\ french -> "RELEVE DE CREANCE"

\* C24 as stated: the statement of every record has the title its gender and
\* language determine (Mr., M., Mrs., Mme; a missing language is English) and
\* the one of the four letter templates its direction and language determine,
\* and both its total row and its amount box show the record's total_amount.
StatementShowsTotal ==
    \A c \in LoggedIn : \A x \in StatementRecords(c) :
        LET st == StatementOf(x)
        IN /\ TitleAndTemplate(x, st)
           /\ st.amount_box = formatCurrency(x.rec.total_amount)
           /\ Len(st.table) = 1
           /\ \A t \in 1..Len(st.table) : st.table[t].total = st.amount_box

\* C24, amended: the same, but the item table and with it the total row are
\* there only when the record has an item; a statement of a record without
\* items shows the total_amount in the amount box alone.
StatementShowsTotalWhenItems ==
    \A c \in LoggedIn : \A x \in StatementRecords(c) :
        LET st == StatementOf(x)
        IN /\ TitleAndTemplate(x, st)
           /\ st.amount_box = formatCurrency(x.rec.total_amount)
           /\ Len(st.table) = (IF Len(x.rec.items) > 0 THEN 1 ELSE 0)
           /\ \A t \in 1..Len(st.table) :
                /\ st.table[t].total = st.amount_box
                /\ Len(st.table[t].rows) = Len(x.rec.items)

\* the creditors have been listed to a user who has a female, French-speaking
\* creditor with an item and a creditor or debtor without items
StatementShowsTotalWitness ==
    /\ exchange.method = "GET"
    /\ exchange.route \in {RecordsRoute(k) : k \in Kinds}
    /\ exchange.status = 200
    /\ \E x \in StatementRecords(exchange.client) :
          /\ x.rec.gender = "female" /\ x.rec.language = "french"
          /\ Len(x.rec.items) > 0
          /\ StatementOf(x).title = "Mme"
    /\ \E x \in StatementRecords(exchange.client) : Len(x.rec.items) = 0

----------------------------------------------------------------------------
(* C25 *)

\* an update that has ended at a statement that threw after its parent UPDATE
\* had run: at the item DELETE, or at the INSERT of item i
FailedAfterUpdate(q) ==
    /\ q.op = "PUT" /\ q.pc = "done"
    /\ \/ q.at = "items" /\ Len(q.L) > 0
       \/ q.at = "insert" /\ q.i <= Len(q.L)

\* the item rows the first n items of L are stored as
StoredPrefix(L, n) ==
    [j \in 1..n |-> [reason |-> StrOr(L[j], "reason", ""),
                     amount |-> Numeric152(NumOr(L[j], "amount", 0)),
                     status |-> StrOr(L[j], "status", "pending")]]

\* no other request has entered its handler and the record is still stored
\* as the requester's
RanAlone(r, q) ==
    /\ \A o \in Slots \ {r} : running[o] = Idle
    /\ \E p \in parents[q.k] : p.id = q.id /\ p.user_id = q.uid

\* C25: an update whose store fails after the parent UPDATE or the item
\* DELETE has run is answered 500, never with a success, and nothing is
\* rolled back: the parent keeps the submitted fields, and once the item
\* DELETE has run the old items are gone and only the items inserted before
\* the failure, a proper prefix of the submitted list, are stored.
FailedUpdateIsLeftHalfDone ==
    \A r \in Slots :
        LET q == running[r]
        IN FailedAfterUpdate(q) =>
             /\ q.status = 500
             /\ RanAlone(r, q) =>
                  /\ \A p \in parents[q.k] : p.id = q.id =>
                        /\ p.full_name = q.body.full_name
                        /\ p.gender = StrOr(q.body, "gender", "male")
                        /\ p.language = StrOr(q.body, "language", "english")
                  /\ q.at = "items" =>
                        StoredItems(DB, q.k, q.id) =
                            StoredItems(StepsStart(variant), q.k, q.id)
                  /\ q.at = "insert" =>
                        StoredItems(DB, q.k, q.id) = StoredPrefix(q.L, q.i - 1)

\* the owner's update of two items has failed at its second INSERT: the
\* parent has changed, the old item is gone and the first new item is stored
FailedUpdateIsLeftHalfDoneWitness ==
    \E r \in Slots :
        LET q == running[r]
        IN /\ FailedAfterUpdate(q) /\ RanAlone(r, q)
           /\ q.at = "insert" /\ q.i = 2 /\ Len(q.L) = 2
           /\ exchange = Answered(q) /\ exchange.status = 500
           /\ parents[q.k] # StepsStart(variant).parents[q.k]
           /\ Len(StoredItems(DB, q.k, q.id)) = 1
           /\ StoredItems(DB, q.k, q.id) # StoredItems(StepsStart(variant), q.k, q.id)

----------------------------------------------------------------------------
(* C26 *)

\* two updates of one record by its owner, with different item lists, have
\* both been answered 200
BothUpdated(q1, q2) ==
    /\ q1.op = "PUT" /\ q2.op = "PUT"
    /\ q1.pc = "done" /\ q2.pc = "done"
    /\ q1.status = 200 /\ q2.status = 200
    /\ q1.k = q2.k /\ q1.id = q2.id /\ q1.uid = q2.uid
    /\ q1.L # q2.L
    /\ \E p \in parents[q1.k] : p.id = q1.id /\ p.user_id = q1.uid

\* C26: once two updates of one record by its owner, with item lists A and B,
\* interleaved statement by statement, have both succeeded, the items stored
\* for the record are exactly those of A or exactly those of B, never a union
\* or a mixture.
ConcurrentUpdatesLeaveAOrB ==
    LET q1 == running["r1"]
        q2 == running["r2"]
    IN BothUpdated(q1, q2) =>
          StoredItems(DB, q1.k, q1.id) \in
              {StoredPrefix(q1.L, Len(q1.L)), StoredPrefix(q2.L, Len(q2.L))}

----------------------------------------------------------------------------
(* C27 *)

\* the stores an admin on another browser leaves by a successful
\* PUT /api/admin/users/:id or PUT /api/admin/users/:id/reset-password on
\* the user of browser c's session
AfterAdminChange(c) ==
    UNION { {updateUser(variant, DB, session[a], session[c].userId, b).db :
                b \in {x \in UpdateUserBodies :
                         updateUser(variant, DB, session[a], session[c].userId, x).status = 200}}
            \cup
            {resetPassword(variant, DB, session[a], session[c].userId, b).db : b \in ResetBodies} :
            a \in {x \in Clients \ {c} : requireAdmin(session[x])} }

\* every /api/admin route answers 403 to session s exactly when s holds no
\* isAdmin = TRUE, whatever store d holds
AdminGateOfSession(d, s) ==
    /\ (getUsers(d, s).status = 403) = ~s.isAdmin
    /\ \A b \in NewUserBodies : (createUser(variant, d, s, b).status = 403) = ~s.isAdmin
    /\ \A id \in UserIds :
         /\ \A b \in UpdateUserBodies :
               (updateUser(variant, d, s, id, b).status = 403) = ~s.isAdmin
         /\ \A b \in ResetBodies :
               (resetPassword(variant, d, s, id, b).status = 403) = ~s.isAdmin
         /\ (deleteUser(d, s, id).status = 403) = ~s.isAdmin

\* src/unnamed/part_001: the status and the pages answer session s from the
\* flags s holds, whatever store d holds
FlagGateOfSession(d, s) ==
    /\ getStatus(variant, d, s).reply.mustChangePassword = s.mustChangePassword
    /\ getStatus(variant, d, s).reply.isAdmin = s.isAdmin
    /\ \A p \in {"/dashboard", "/admin"} :
         getPage(variant, d, s, p).reply =
            IF s.mustChangePassword THEN [redirect |-> "/change-password"]
            ELSE IF p = "/admin" /\ ~s.isAdmin THEN [redirect |-> "/dashboard"]
            ELSE NoReply

\* C27: the isAdmin that gates the admin routes, and in src/unnamed/part_001
\* the mustChangePassword of /api/auth/status and of the page routes, are the
\* values the session took at login.  After an admin has changed the
\* is_admin of the user of an open session or reset that user's password,
\* the requests of the open session are gated by the values it holds; a new
\* login takes the stored values, and in part_001 the user's own change of
\* password clears the session's mustChangePassword.
OpenSessionKeepsItsFlags ==
    \A c \in LoggedIn : \A d \in AfterAdminChange(c) \cup {DB} :
        /\ AdminGateOfSession(d, session[c])
        /\ variant = "part_001" => FlagGateOfSession(d, session[c])
        /\ \A b \in LoginBodies : \A r \in login(variant, d, session[c], b) :
              r.status = 200 =>
                 \E u \in UserById(d, r.session.userId) : r.session = SessionOf(variant, u)
        /\ variant = "part_001" =>
              \A b \in PasswordBodies :
                 \A r \in {putPassword(variant, d, session[c], b),
                           forcePasswordChange(variant, d, session[c], b)} :
                     r.status = 200 => ~r.session.mustChangePassword

\* src/unnamed/part_001: while a user's session is open, without the flags,
\* an admin has made the user an admin and reset the password; the session
\* holds the old values
OpenSessionKeepsItsFlagsWitness ==
    /\ variant = "part_001"
    /\ exchange.status = 200
    /\ exchange.route \in {"/api/admin/users/:id", "/api/admin/users/:id/reset-password"}
    /\ \E c \in LoggedIn \ {exchange.client} :
          /\ exchange.id = session[c].userId
          /\ ~session[c].isAdmin /\ ~session[c].mustChangePassword
          /\ \E u \in UserById(DB, session[c].userId) :
                u.is_admin /\ u.must_change_password

----------------------------------------------------------------------------
(* C28 *)

\* session s is treated as unauthenticated on store d: the status says so,
\* the protected routes answer 401, the admin routes 403, and nothing is
\* written
ShutOut(d, s) ==
    /\ ~getStatus(variant, d, s).reply.authenticated
    /\ getProfile(variant, d, s).status = 401
    /\ \A b \in ProfileBodies : putProfile(d, s, b) = Refuse(d, s, 401)
    /\ \A b \in PasswordBodies :
         /\ putPassword(variant, d, s, b) = Refuse(d, s, 401)
         /\ forcePasswordChange(variant, d, s, b) = Refuse(d, s, 401)
    /\ \A k \in Kinds :
         /\ getRecords(d, s, k).status = 401
         /\ \A b \in Bodies, L \in ItemLists : postRecord(d, s, k, b, L) = Unauthorized(d)
         /\ \A id \in 1..MaxRows :
              /\ \A b \in Bodies, L \in ItemLists :
                    putRecord(variant, d, s, k, id, b, L) = Unauthorized(d)
              /\ deleteRecord(variant, d, s, k, id) = Unauthorized(d)
    /\ getPayments(d, s).status = 401
    /\ \A b \in PaymentBodies : postPayment(variant, d, s, b) = Unauthorized(d)
    /\ \A id \in 1..MaxRows : deletePayment(variant, d, s, id) = Unauthorized(d)
    /\ getStats(d, s).status = 401
    /\ getUsers(d, s).status = 403
    /\ \A b \in NewUserBodies : createUser(variant, d, s, b) = Refuse(d, s, 403)
    /\ \A id \in UserIds :
         /\ \A b \in UpdateUserBodies : updateUser(variant, d, s, id, b) = Refuse(d, s, 403)
         /\ \A b \in ResetBodies : resetPassword(variant, d, s, id, b) = Refuse(d, s, 403)
         /\ deleteUser(d, s, id) = Refuse(d, s, 403)

\* no request on session s but a successful login makes it authenticated
OnlyLoginOpens(d, s) ==
    /\ \A b \in LoginBodies : \A r \in login(variant, d, s, b) :
          r.status # 200 => r.session = s
    /\ logout(d, s).session = s
    /\ getStatus(variant, d, s).session = s
    /\ \A p \in Pages : getPage(variant, d, s, p).session = s

\* C28: after a successful POST /api/auth/logout on an authenticated session,
\* every later request that carries the session is treated as
\* unauthenticated (the status answers authenticated = false, the protected
\* routes 401, the admin routes 403), until a new successful login.
LogoutEndsSession ==
    /\ \A c \in LoggedIn :
         LET r == logout(DB, session[c])
         IN /\ r.status = 200
            /\ r.db = DB
            /\ ~requireAuth(r.session)
            /\ ShutOut(r.db, r.session)
            /\ OnlyLoginOpens(r.db, r.session)
    /\ \A c \in Clients \ LoggedIn :
         ShutOut(DB, session[c]) /\ OnlyLoginOpens(DB, session[c])

\* a browser whose user had logged in has logged out: its session is gone,
\* while the user's row is still stored
LogoutEndsSessionWitness ==
    /\ exchange.method = "POST"
    /\ exchange.route = "/api/auth/logout"
    /\ exchange.status = 200
    /\ session[exchange.client] = NoSession
    /\ \E u \in DB.users : u.last_login > 0
    /\ \E c \in LoggedIn : c # exchange.client

----------------------------------------------------------------------------
(* C29 *)

\* C29: in every reachable state, whatever the interleaving of the statements
\* of create, update and delete requests on creditors and debtors (an update
\* racing with a delete of the same record and the admin deleting the owning
\* user included), every item row references a stored parent and every
\* parent references a stored user.
NoOrphanIsStored ==
    /\ \A k \in Kinds : \A i \in items[k] : \E p \in parents[k] : p.id = i.parent_id
    /\ \A k \in Kinds : \A p \in parents[k] : \E u \in users : u.id = p.user_id

\* an update is in its item loop while the record it updates has been
\* deleted by the request running beside it
NoOrphanIsStoredWitness ==
    \E r1 \in Slots, r2 \in Slots :
        /\ running[r1].op = "PUT" /\ running[r1].pc = "insert"
        /\ running[r2].op = "DELETE" /\ running[r2].status = 200
        /\ running[r2].k = running[r1].k /\ running[r2].id = running[r1].id
        /\ ~\E p \in parents[running[r1].k] : p.id = running[r1].id

----------------------------------------------------------------------------
(* C30 *)

\* bodies with a new password of five characters or more, with a current
\* password that is right, wrong or not given
LongPasswordBodies ==
    {b \in PasswordBodies \cup AnyPasswordBodies \cup {[newPassword |-> "s3cret"]} :
        ~TooShort(b)}

\* C30: PUT /api/auth/force-password-change from any authenticated session,
\* with any new password of at least 5 characters, replaces the stored
\* password hash of the session's user without verifying the current
\* password, whether the user's must_change_password is true or already
\* false; it changes the password of no other user.
ForceChangeReplacesOwnHash ==
    \A c \in LoggedIn : \A b \in LongPasswordBodies :
        LET s == session[c]
            r == forcePasswordChange(variant, DB, s, b)
        IN /\ r.status = 200
           /\ \A u \in UserById(DB, s.userId) :
                 [u EXCEPT !.password_hash = bcryptHash(b.newPassword),
                           !.must_change_password = FALSE] \in r.db.users
           /\ \A u \in UserById(r.db, s.userId) :
                 bcryptCompare(b.newPassword, u.password_hash)
           /\ {u \in r.db.users : u.id # s.userId} = {u \in DB.users : u.id # s.userId}
           /\ Cardinality(r.db.users) = Cardinality(DB.users)
           /\ r.db = [DB EXCEPT !.users = r.db.users]

\* a forced change has been answered 200 to a user who is not the only one
\* stored; the user's flag is false now and the session is still open, so
\* that the next forced change finds the flag already false
ForceChangeReplacesOwnHashWitness ==
    /\ exchange.method = "PUT"
    /\ exchange.route = "/api/auth/force-password-change"
    /\ exchange.status = 200
    /\ exchange.client \in LoggedIn
    /\ \E u \in UserById(DB, session[exchange.client].userId) :
          /\ ~u.must_change_password
          /\ u.password_hash = bcryptHash("s3cret")
    /\ \E u \in DB.users :
          /\ u.id # session[exchange.client].userId
          /\ u.must_change_password

====
